---- MODULE Spec2Model ----
(***************************************************************************)
(* Climate-Adaptive Seed AI Bank: the farm-scoped REST handlers, the       *)
(* authentication flow and the seed recommendation engine.                 *)
(*                                                                         *)
(* Eight specifications share the variables below:                         *)
(*   Spec          the handlers of api/farms.py and the feedback handler   *)
(*                 of api/recommendations.py over the relational store;    *)
(*   SpecRecords   the record handlers of api/farms.py;                    *)
(*   SpecAuth      register / login / me / farms of main.py;               *)
(*   SpecEngine    services/recommendation_engine.py;                      *)
(*   SpecSoil      the location cache of services/soil_service.py;         *)
(*   SpecRecommend get_recommendations and get_quick_recommendation;       *)
(*   SpecApp       the startup hook, the routes and the analytics          *)
(*                 dashboards;                                             *)
(*   SpecConcurrent dashboard requests in flight at the same time.         *)
(***************************************************************************)
EXTENDS Integers, Sequences, FiniteSets, TLC

VARIABLES
    farms,            \* table farms: id -> row
    soil_profiles,    \* table soil_profiles: id -> row
    climate_records,  \* table climate_records: id -> row
    crop_cycles,      \* table crop_cycles: id -> row
    recommendations,  \* table seed_recommendations: id -> row
    seeds,            \* table seeds: id -> row
    response,         \* the last HTTP response, with the request it answers
    users,            \* table users: id -> row
    tokens,           \* the access tokens issued so far
    bearer,           \* the Authorization header of the last request
    now,              \* wall clock, in minutes
    engine,           \* the SeedRecommendationEngine instance
    call,             \* the last engine call: its arguments and what it read
    result,           \* what the last engine call returned
    prev,             \* how the last engine call relates to the one before
    soil_cache,       \* SoilAnalysisService._soil_cache: key -> (data, timestamp)
    in_flight         \* the requests the server has accepted and not answered: id -> request

vars == <<farms, soil_profiles, climate_records, crop_cycles, recommendations, seeds,
          response, users, tokens, bearer, now, engine, call, result, prev, soil_cache, in_flight>>

dbVars == <<farms, soil_profiles, climate_records, crop_cycles, recommendations, seeds>>
authVars == <<users, tokens, bearer, now>>
engineVars == <<engine, call, result, prev>>

NULL == "NULL"

\* ---------------------------------------------------------------- bounds
NumUsers == 2
MaxFarms == 2
MaxRows == 2
MaxTokens == 2
MaxMinutes == 40

UserIds == 1..NumUsers
FarmIds == 1..MaxFarms

SetMax(S) == CHOOSE x \in S : \A y \in S : y <= x

\* SQLite INTEGER PRIMARY KEY without AUTOINCREMENT: the next rowid is one more
\* than the largest one in the table.
NextId(table) == IF DOMAIN table = {} THEN 1 ELSE SetMax(DOMAIN table) + 1

\* A table with one more row / with one row removed.
Insert(table, id, row) == [i \in DOMAIN table \cup {id} |-> IF i = id THEN row ELSE table[i]]
Delete(table, id) == [i \in DOMAIN table \ {id} |-> table[i]]

EmptyTable == [i \in {} |-> NULL]

\* a call that returns value, and a call that raises
Return(value) == [raised |-> FALSE, value |-> value]
Raise == [raised |-> TRUE]

\* ------------------------------------------------------- request bodies
\* FarmCreate: only the two validated area fields are kept, in hectares.  The
\* sample has three bodies that pass validation and one for each way of
\* failing it.
FarmBodies ==
    { [total_area |-> 2, cultivated_area |-> 1],
      [total_area |-> 2, cultivated_area |-> 2],
      [total_area |-> 2500, cultivated_area |-> 1],
      [total_area |-> 1, cultivated_area |-> 2],
      [total_area |-> 2, cultivated_area |-> 0],
      [total_area |-> 0, cultivated_area |-> 0] }

\* a schema without the area constraints
validate_nothing(body) == TRUE

\* FarmBase: total_area gt 0 (le 10000), cultivated_area gt 0, and the
\* validator: cultivated_area must not exceed total_area.
validate_cultivated_area(body) ==
    /\ body.total_area > 0
    /\ body.cultivated_area > 0
    /\ ~(body.cultivated_area > body.total_area)

\* SoilProfileCreate / ClimateRecordCreate / CropCycleCreate: the farm_id the
\* body carries (0: none, where the field is optional) and whether the rest of
\* the body passes the schema's validation.
\* Optional[float]: None is the empty tuple, a number x the tuple <<x>>
Unset == <<>>
Some(x) == <<x>>

\* total_cost / total_revenue: Optional[float], ge 0: not provided, 0, or more
Amounts == {Unset, Some(0), Some(3)}

SoilProfileBodies == [farm_id : FarmIds, valid : BOOLEAN]
ClimateRecordBodies == [farm_id : {0} \cup FarmIds, valid : BOOLEAN]
CropCycleBodies == [farm_id : FarmIds, valid : BOOLEAN, total_cost : Amounts, total_revenue : Amounts]

Feedbacks == {"accepted", "maybe"}

\* ------------------------------------------------------------ responses
Resp(op, user, target, status, rows) ==
    [op |-> op, user |-> user, target |-> target, status |-> status, rows |-> rows]

NoResponse == Resp("none", 0, 0, 0, {})

\* db.query(Farm).filter(Farm.id == farm_id, Farm.owner_id == current_user.id).first()
OwnedFarm(farm_id, user) ==
    farm_id \in DOMAIN farms /\ farms[farm_id].owner_id = user

\* rows of a child table that belong to a farm
RowsOfFarm(table, farm_id) == {i \in DOMAIN table : table[i].farm_id = farm_id}

\* A body that fails its schema never reaches the handler: the framework
\* answers 422 itself.
request_validation_error(u, target) ==
    /\ response' = Resp("request_validation_error", u, target, 422, {})
    /\ UNCHANGED dbVars

\* ------------------------------------------------------- api/farms.py
\* POST /api/farms/
create_farm(u, body) ==
    /\ NextId(farms) <= MaxFarms
    /\ LET id == NextId(farms)
           row == [owner_id |-> u, total_area |-> body.total_area,
                   cultivated_area |-> body.cultivated_area]
       IN /\ farms' = Insert(farms, id, row)
          /\ response' = Resp("create_farm", u, id, 200, {id})
          /\ UNCHANGED <<soil_profiles, climate_records, crop_cycles, recommendations, seeds>>

\* GET /api/farms/
get_my_farms(u) ==
    /\ response' = Resp("get_my_farms", u, 0, 200,
                        {f \in DOMAIN farms : farms[f].owner_id = u})
    /\ UNCHANGED dbVars

\* GET /api/farms/{farm_id}
get_farm(u, farm_id) ==
    /\ IF ~OwnedFarm(farm_id, u)
       THEN response' = Resp("get_farm", u, farm_id, 404, {})
       ELSE response' = Resp("get_farm", u, farm_id, 200, {farm_id})
    /\ UNCHANGED dbVars

\* update_farm without the owner filter of its query
update_farm_any_owner(u, farm_id, body) ==
    /\ IF farm_id \notin DOMAIN farms
       THEN /\ response' = Resp("update_farm", u, farm_id, 404, {})
            /\ UNCHANGED dbVars
       ELSE LET row == [farms[farm_id] EXCEPT !.total_area = body.total_area,
                                              !.cultivated_area = body.cultivated_area]
            IN /\ farms' = [farms EXCEPT ![farm_id] = row]
               /\ response' = Resp("update_farm", u, farm_id, 200, {farm_id})
               /\ UNCHANGED <<soil_profiles, climate_records, crop_cycles, recommendations, seeds>>

\* PUT /api/farms/{farm_id}: every field of the body overwrites the row's, owner_id is not a field of it.
update_farm(u, farm_id, body) ==
    /\ IF ~OwnedFarm(farm_id, u)
       THEN /\ response' = Resp("update_farm", u, farm_id, 404, {})
            /\ UNCHANGED dbVars
       ELSE LET row == [farms[farm_id] EXCEPT !.total_area = body.total_area,
                                              !.cultivated_area = body.cultivated_area]
            IN /\ farms' = [farms EXCEPT ![farm_id] = row]
               /\ response' = Resp("update_farm", u, farm_id, 200, {farm_id})
               /\ UNCHANGED <<soil_profiles, climate_records, crop_cycles, recommendations, seeds>>

\* DELETE /api/farms/{farm_id}.  Farm.soil_profiles, Farm.climate_records and
\* Farm.crop_cycles are relationships without a delete cascade: the unit of work
\* sets the children's farm_id to NULL (0 here) before it deletes the farm.  farm_id is
\* NOT NULL in soil_profiles and crop_cycles, so with such a child the flush
\* fails, the handler (which has no try) answers 500 and nothing is committed.
\* seed_recommendations has no relationship on the Farm side: its rows stay.
delete_farm(u, farm_id) ==
    /\ IF ~OwnedFarm(farm_id, u)
       THEN /\ response' = Resp("delete_farm", u, farm_id, 404, {})
            /\ UNCHANGED dbVars
       ELSE IF RowsOfFarm(soil_profiles, farm_id) # {} \/ RowsOfFarm(crop_cycles, farm_id) # {}
       THEN /\ response' = Resp("delete_farm", u, farm_id, 500, {})
            /\ UNCHANGED dbVars
       ELSE /\ climate_records' = [i \in DOMAIN climate_records |->
                    IF climate_records[i].farm_id = farm_id
                    THEN [climate_records[i] EXCEPT !.farm_id = 0]
                    ELSE climate_records[i]]
            /\ farms' = Delete(farms, farm_id)
            /\ response' = Resp("delete_farm", u, farm_id, 200, {})
            /\ UNCHANGED <<soil_profiles, crop_cycles, recommendations, seeds>>

\* The fields of the three create schemas (abridged): each declares farm_id.
SoilProfileCreate == {"farm_id", "ph_level", "test_date"}
ClimateRecordCreate == {"farm_id", "record_date", "data_source"}
CropCycleCreate == {"farm_id", "seed_id", "season", "year", "total_cost", "total_revenue"}

\* Model(**body.dict(), farm_id=farm_id): body.dict() has a key for every field
\* the schema declares (set or not), and Python refuses a keyword given twice
\* with a TypeError; otherwise the row takes the path's farm_id.
ConstructWithFarmId(schema, farm_id) ==
    IF "farm_id" \in schema
    THEN [raised |-> TRUE, farm_id |-> 0]
    ELSE [raised |-> FALSE, farm_id |-> farm_id]

\* POST /api/farms/{farm_id}/soil-profiles (SoilProfileCreate declares farm_id: int)
create_soil_profile(u, farm_id, body) ==
    /\ NextId(soil_profiles) <= MaxRows
    /\ LET row == ConstructWithFarmId(SoilProfileCreate, farm_id) IN
       IF ~OwnedFarm(farm_id, u)
       THEN /\ response' = Resp("create_soil_profile", u, farm_id, 404, {})
            /\ UNCHANGED dbVars
       ELSE IF row.raised
       THEN /\ response' = Resp("create_soil_profile", u, farm_id, 500, {})
            /\ UNCHANGED dbVars
       ELSE /\ soil_profiles' = Insert(soil_profiles, NextId(soil_profiles), [farm_id |-> row.farm_id])
            /\ response' = Resp("create_soil_profile", u, farm_id, 200, {NextId(soil_profiles)})
            /\ UNCHANGED <<farms, climate_records, crop_cycles, recommendations, seeds>>

\* GET /api/farms/{farm_id}/soil-profiles
get_soil_profiles(u, farm_id) ==
    /\ IF ~OwnedFarm(farm_id, u)
       THEN response' = Resp("get_soil_profiles", u, farm_id, 404, {})
       ELSE response' = Resp("get_soil_profiles", u, farm_id, 200, RowsOfFarm(soil_profiles, farm_id))
    /\ UNCHANGED dbVars

\* POST /api/farms/{farm_id}/climate-records (ClimateRecordCreate declares
\* farm_id: Optional[int] = None)
create_climate_record(u, farm_id, body) ==
    /\ NextId(climate_records) <= MaxRows
    /\ LET row == ConstructWithFarmId(ClimateRecordCreate, farm_id) IN
       IF ~OwnedFarm(farm_id, u)
       THEN /\ response' = Resp("create_climate_record", u, farm_id, 404, {})
            /\ UNCHANGED dbVars
       ELSE IF row.raised
       THEN /\ response' = Resp("create_climate_record", u, farm_id, 500, {})
            /\ UNCHANGED dbVars
       ELSE /\ climate_records' = Insert(climate_records, NextId(climate_records), [farm_id |-> row.farm_id])
            /\ response' = Resp("create_climate_record", u, farm_id, 200, {NextId(climate_records)})
            /\ UNCHANGED <<farms, soil_profiles, crop_cycles, recommendations, seeds>>

\* GET /api/farms/{farm_id}/climate-records
get_climate_records(u, farm_id) ==
    /\ IF ~OwnedFarm(farm_id, u)
       THEN response' = Resp("get_climate_records", u, farm_id, 404, {})
       ELSE response' = Resp("get_climate_records", u, farm_id, 200, RowsOfFarm(climate_records, farm_id))
    /\ UNCHANGED dbVars

\* if db_crop_cycle.total_cost and db_crop_cycle.total_revenue:
\*     db_crop_cycle.profit = db_crop_cycle.total_revenue - db_crop_cycle.total_cost
profit(total_cost, total_revenue) ==
    IF (total_cost # Unset /\ total_cost # Some(0)) /\ (total_revenue # Unset /\ total_revenue # Some(0))
    THEN Some(total_revenue[1] - total_cost[1])
    ELSE Unset

\* POST /api/farms/{farm_id}/crop-cycles (CropCycleCreate declares farm_id: int)
create_crop_cycle(u, farm_id, body) ==
    /\ NextId(crop_cycles) <= MaxRows
    /\ LET row == ConstructWithFarmId(CropCycleCreate, farm_id) IN
       IF ~OwnedFarm(farm_id, u)
       THEN /\ response' = Resp("create_crop_cycle", u, farm_id, 404, {})
            /\ UNCHANGED dbVars
       ELSE IF row.raised
       THEN /\ response' = Resp("create_crop_cycle", u, farm_id, 500, {})
            /\ UNCHANGED dbVars
       ELSE /\ crop_cycles' = Insert(crop_cycles, NextId(crop_cycles),
                                     [farm_id |-> row.farm_id,
                                      total_cost |-> body.total_cost,
                                      total_revenue |-> body.total_revenue,
                                      profit |-> profit(body.total_cost, body.total_revenue)])
            /\ response' = Resp("create_crop_cycle", u, farm_id, 200, {NextId(crop_cycles)})
            /\ UNCHANGED <<farms, soil_profiles, climate_records, recommendations, seeds>>

\* GET /api/farms/{farm_id}/crop-cycles
get_crop_cycles(u, farm_id) ==
    /\ IF ~OwnedFarm(farm_id, u)
       THEN response' = Resp("get_crop_cycles", u, farm_id, 404, {})
       ELSE response' = Resp("get_crop_cycles", u, farm_id, 200, RowsOfFarm(crop_cycles, farm_id))
    /\ UNCHANGED dbVars

\* round(x, 1) of the quotient num / den, in tenths: Python rounds the float to
\* the nearest tenth, a tie to the even one.
round_1(num, den) ==
    LET q == (num * 10) \div den
        r == (num * 10) % den
    IN IF 2 * r > den \/ (2 * r = den /\ q % 2 = 1) THEN q + 1 ELSE q

\* round((farm.cultivated_area / farm.total_area) * 100, 1), in tenths of a
\* percent; the division raises ZeroDivisionError on a total_area of 0.
utilization_rate(farm) ==
    IF farm.total_area = 0
    THEN Raise
    ELSE Return(round_1(farm.cultivated_area * 100, farm.total_area))

\* GET /api/farms/{farm_id}/dashboard
get_farm_dashboard(u, farm_id) ==
    /\ IF ~OwnedFarm(farm_id, u)
       THEN response' = Resp("get_farm_dashboard", u, farm_id, 404, {})
       ELSE LET rate == utilization_rate(farms[farm_id]) IN
            IF rate.raised
            THEN response' = Resp("get_farm_dashboard", u, farm_id, 500, {})
            ELSE response' =
                    Resp("get_farm_dashboard", u, farm_id, 200, {farm_id}) @@
                    [performance |->
                        [total_cycles |-> Cardinality(RowsOfFarm(crop_cycles, farm_id)),
                         cultivated_area |-> farms[farm_id].cultivated_area,
                         utilization_rate |-> rate.value],
                     climate_summary |->
                        [records_count |-> Cardinality(RowsOfFarm(climate_records, farm_id))]]
    /\ UNCHANGED dbVars

\* ---------------------------------------------- api/recommendations.py
\* db.query(SeedRecommendation).join(Farm).filter(id == rid, Farm.owner_id == user)
OwnedRecommendation(rid, user) ==
    /\ rid \in DOMAIN recommendations
    /\ OwnedFarm(recommendations[rid].farm_id, user)

\* POST /api/recommendations/{recommendation_id}/feedback
provide_recommendation_feedback(u, rid, feedback, notes) ==
    /\ IF ~OwnedRecommendation(rid, u)
       THEN /\ response' = Resp("provide_recommendation_feedback", u, rid, 404, {})
            /\ UNCHANGED dbVars
       ELSE /\ recommendations' = [recommendations EXCEPT ![rid] =
                    [@ EXCEPT !.farmer_feedback = feedback,
                              !.implementation_notes = IF notes # "" THEN notes ELSE @]]
            /\ response' = Resp("provide_recommendation_feedback", u, rid, 200, {})
            /\ UNCHANGED <<farms, soil_profiles, climate_records, crop_cycles, seeds>>

\* ------------------------------------------ api/auth.py and main.py
\* api/auth.py is not among the sources; what it does is taken from its callers
\* in main.py and from test_auth.py.

\* UserCreate bodies: two people, and a third body that reuses an e-mail
UserBodies ==
    { [username |-> "farmer1", email |-> "farmer1@example.com", password |-> "password123"],
      [username |-> "farmer2", email |-> "farmer2@example.com", password |-> "password456"],
      [username |-> "farmer3", email |-> "farmer1@example.com", password |-> "password789"] }

Passwords == {b.password : b \in UserBodies}
LoginNames == {b.email : b \in UserBodies} \cup {"farmer1"}

\* pwd_context.hash / pwd_context.verify
get_password_hash(password) == <<"bcrypt", password>>
verify_password(password, password_hash) == password_hash = get_password_hash(password)

\* the user row with this e-mail: its id, or 0
get_user_by_email(email) ==
    IF \E u \in DOMAIN users : users[u].email = email
    THEN CHOOSE u \in DOMAIN users : users[u].email = email
    ELSE 0

\* create_user(db, user): 400 for an e-mail or username that is taken
create_user(body) ==
    /\ NextId(users) <= NumUsers
    /\ IF \E u \in DOMAIN users : users[u].email = body.email \/ users[u].username = body.username
       THEN /\ response' = Resp("register_user", 0, body.email, 400, {})
            /\ UNCHANGED users
       ELSE /\ users' = Insert(users, NextId(users),
                               [username |-> body.username, email |-> body.email,
                                password_hash |-> get_password_hash(body.password),
                                is_active |-> TRUE])
            /\ response' = Resp("register_user", NextId(users), body.email, 200, {NextId(users)})

\* authenticate_user(db, username, password): the user whose e-mail is the
\* form's username, when the password verifies; else 0 (False)
authenticate_user(username, password) ==
    LET u == get_user_by_email(username)
    IN IF u # 0 /\ verify_password(password, users[u].password_hash) THEN u ELSE 0

ACCESS_TOKEN_EXPIRE_MINUTES == 30

\* a request without an Authorization header
NoToken == [sub |-> "", exp |-> 0, signed |-> FALSE]

\* create_access_token(data, expires_delta): a signed JWT with the claims of
\* data and exp
create_access_token(sub, expires_delta) ==
    [sub |-> sub, exp |-> now + expires_delta, signed |-> TRUE]

\* a token nobody issued: the claims of a user, without the server's signature
ForgedTokens == {[sub |-> b.email, exp |-> now + ACCESS_TOKEN_EXPIRE_MINUTES, signed |-> FALSE] :
                    b \in UserBodies}

\* get_current_user(token): the user of the token's subject when the signature
\* verifies, the token has not expired and the user exists; else 0 (401)
get_current_user(token) ==
    IF token.signed /\ now <= token.exp THEN get_user_by_email(token.sub) ELSE 0

\* get_current_active_user: get_current_user, refusing an inactive user
get_current_active_user(token) ==
    LET u == get_current_user(token)
    IN IF u # 0 /\ users[u].is_active THEN u ELSE 0

\* POST /api/auth/register
register_user(body) ==
    /\ create_user(body)
    /\ bearer' = NoToken
    /\ UNCHANGED <<dbVars, tokens, now, engineVars, soil_cache, in_flight>>

\* login with the token's subject taken from the username column
login_sub_username(username, password) ==
    /\ bearer' = NoToken
    /\ LET user == authenticate_user(username, password) IN
       IF user = 0
       THEN /\ response' = Resp("login", 0, <<username, password>>, 401, {})
            /\ UNCHANGED tokens
       ELSE LET access_token == create_access_token(users[user].username, ACCESS_TOKEN_EXPIRE_MINUTES)
            IN /\ tokens' = tokens \cup {access_token}
               /\ response' = Resp("login", user, <<username, password>>, 200,
                                   {[access_token |-> access_token, token_type |-> "bearer"]})
    /\ UNCHANGED <<dbVars, users, now, engineVars, soil_cache, in_flight>>

\* POST /api/auth/login
login(username, password) ==
    /\ bearer' = NoToken
    /\ LET user == authenticate_user(username, password) IN
       IF user = 0
       THEN /\ response' = Resp("login", 0, <<username, password>>, 401, {})
            /\ UNCHANGED tokens
       ELSE LET access_token == create_access_token(users[user].email, ACCESS_TOKEN_EXPIRE_MINUTES)
            IN /\ tokens' = tokens \cup {access_token}
               /\ response' = Resp("login", user, <<username, password>>, 200,
                                   {[access_token |-> access_token, token_type |-> "bearer"]})
    /\ UNCHANGED <<dbVars, users, now, engineVars, soil_cache, in_flight>>

\* GET /api/auth/me
read_users_me(token) ==
    /\ bearer' = token
    /\ LET current_user == get_current_user(token) IN
       IF current_user = 0
       THEN response' = Resp("read_users_me", 0, 0, 401, {})
       ELSE response' = Resp("read_users_me", current_user, 0, 200, {current_user})
    /\ UNCHANGED <<dbVars, users, tokens, now, engineVars, soil_cache, in_flight>>

\* GET /api/farms/ with a bearer token: Depends(get_current_active_user), then
\* the handler
get_my_farms_with_token(token) ==
    /\ bearer' = token
    /\ LET current_user == get_current_active_user(token) IN
       IF current_user = 0
       THEN /\ response' = Resp("get_my_farms", 0, 0, 401, {})
            /\ UNCHANGED dbVars
       ELSE get_my_farms(current_user)
    /\ UNCHANGED <<users, tokens, now, engineVars, soil_cache, in_flight>>

\* POST /api/farms/ with a bearer token
create_farm_with_token(token, body) ==
    /\ bearer' = token
    /\ LET current_user == get_current_active_user(token) IN
       IF current_user = 0
       THEN /\ response' = Resp("create_farm", 0, 0, 401, {})
            /\ UNCHANGED dbVars
       ELSE create_farm(current_user, body)
    /\ UNCHANGED <<users, tokens, now, engineVars, soil_cache, in_flight>>

\* time passes
Tick ==
    /\ now + 20 <= MaxMinutes
    /\ now' = now + 20
    /\ UNCHANGED <<dbVars, response, users, tokens, bearer, engineVars, soil_cache, in_flight>>

\* ------------------------------------------------------ specification Spec
Notes == {"", "visited the field"}

\* the ids a request can name: those of the stored recommendations and one more
RecommendationIds == DOMAIN recommendations \cup {NextId(recommendations)}

Rec(farm_id, seed_id) ==
    [farm_id |-> farm_id, seed_id |-> seed_id, farmer_feedback |-> NULL,
     implementation_notes |-> NULL]

\* The rows init_sample_data adds to the seeds table: variety_name (unique),
\* crop_type and is_available of the five sample varieties, ids 1 to 5.
init_sample_seeds ==
    << [variety_name |-> "Longe 10H", crop_type |-> "maize", is_available |-> TRUE],
       [variety_name |-> "NAROBEAN 1", crop_type |-> "beans", is_available |-> TRUE],
       [variety_name |-> "NAROCASS 1", crop_type |-> "cassava", is_available |-> TRUE],
       [variety_name |-> "Ejumula", crop_type |-> "sweet_potato", is_available |-> TRUE],
       [variety_name |-> "Serenut 5R", crop_type |-> "groundnuts", is_available |-> TRUE] >>

\* The store as create_tables leaves it (empty), or as populate_dashboard_data.py
\* leaves it: farms of both users with recommendations, a crop cycle and a
\* climate record.
InitDb ==
    \/ /\ farms = EmptyTable
       /\ soil_profiles = EmptyTable
       /\ climate_records = EmptyTable
       /\ crop_cycles = EmptyTable
       /\ recommendations = EmptyTable
       /\ seeds = EmptyTable
    \/ /\ farms = [f \in {1, 2} |-> [owner_id |-> f, total_area |-> 2, cultivated_area |-> 1]]
       /\ soil_profiles = EmptyTable
       /\ climate_records = [i \in {1} |-> [farm_id |-> 2]]
       /\ crop_cycles = [i \in {1} |-> [farm_id |-> 1]]
       /\ recommendations = [i \in {1} |-> Rec(1, 1)]
       /\ seeds = init_sample_seeds

\* the users table as create_test_users.py leaves it
RegisteredUsers ==
    [u \in UserIds |-> [username |-> <<"user", u>>, email |-> <<"user", u, "@example.com">>,
                        password_hash |-> <<"bcrypt", <<"password", u>>>>, is_active |-> TRUE]]

\* get_current_active_user has resolved the caller: the handler's step leaves the
\* users, the tokens, the clock and the engine alone.
Authenticated == UNCHANGED <<authVars, engineVars, soil_cache, in_flight>>

EngineIdle ==
    /\ engine = NULL
    /\ call = NULL
    /\ result = NULL
    /\ prev = NULL
    /\ soil_cache = EmptyTable
    /\ in_flight = EmptyTable

Init ==
    /\ InitDb
    /\ response = NoResponse
    /\ users = RegisteredUsers
    /\ tokens = {}
    /\ bearer = NoToken
    /\ now = 0
    /\ EngineIdle

Next ==
    \/ \E u \in UserIds, body \in FarmBodies :
          validate_cultivated_area(body) /\ Authenticated /\ create_farm(u, body)
    \/ \E u \in UserIds, f \in FarmIds, body \in FarmBodies :
          ~validate_cultivated_area(body) /\ Authenticated /\ request_validation_error(u, f)
    \/ \E u \in UserIds : Authenticated /\ get_my_farms(u)
    \/ \E u \in UserIds, f \in FarmIds : Authenticated /\ get_farm(u, f)
    \/ \E u \in UserIds, f \in FarmIds, body \in FarmBodies :
          validate_cultivated_area(body) /\ Authenticated /\ update_farm(u, f, body)
    \/ \E u \in UserIds, f \in FarmIds : Authenticated /\ delete_farm(u, f)
    \/ \E u \in UserIds, f \in FarmIds : Authenticated /\ get_farm_dashboard(u, f)
    \/ \E u \in UserIds, r \in RecommendationIds, fb \in Feedbacks, notes \in Notes :
          Authenticated /\ provide_recommendation_feedback(u, r, fb, notes)

Spec == Init /\ [][Next]_vars

\* ----------------------------------------------- specification SpecRecords
\* The soil profile, climate record and crop cycle handlers of api/farms.py,
\* over farms that are created and deleted.
NextRecords ==
    \/ \E u \in UserIds, body \in FarmBodies :
          validate_cultivated_area(body) /\ Authenticated /\ create_farm(u, body)
    \/ \E u \in UserIds, f \in FarmIds, body \in SoilProfileBodies \cup ClimateRecordBodies :
          ~body.valid /\ Authenticated /\ request_validation_error(u, f)
    \/ \E u \in UserIds, f \in FarmIds : Authenticated /\ delete_farm(u, f)
    \/ \E u \in UserIds, f \in FarmIds, body \in SoilProfileBodies :
          body.valid /\ Authenticated /\ create_soil_profile(u, f, body)
    \/ \E u \in UserIds, f \in FarmIds : Authenticated /\ get_soil_profiles(u, f)
    \/ \E u \in UserIds, f \in FarmIds, body \in ClimateRecordBodies :
          body.valid /\ Authenticated /\ create_climate_record(u, f, body)
    \/ \E u \in UserIds, f \in FarmIds : Authenticated /\ get_climate_records(u, f)
    \/ \E u \in UserIds, f \in FarmIds, body \in CropCycleBodies :
          body.valid /\ Authenticated /\ create_crop_cycle(u, f, body)
    \/ \E u \in UserIds, f \in FarmIds : Authenticated /\ get_crop_cycles(u, f)

SpecRecords == Init /\ [][NextRecords]_vars

\* -------------------------------------------------- specification SpecAuth
\* Registration, login and the token-guarded requests of test_auth.py, from an
\* empty store.
InitAuth ==
    /\ farms = EmptyTable
    /\ soil_profiles = EmptyTable
    /\ climate_records = EmptyTable
    /\ crop_cycles = EmptyTable
    /\ recommendations = EmptyTable
    /\ seeds = EmptyTable
    /\ response = NoResponse
    /\ users = EmptyTable
    /\ tokens = {}
    /\ bearer = NoToken
    /\ now = 0
    /\ EngineIdle

NextAuth ==
    \/ \E body \in UserBodies : register_user(body)
    \/ \E username \in LoginNames, password \in Passwords :
          Cardinality(tokens) < MaxTokens /\ login(username, password)
    \/ \E token \in tokens \cup ForgedTokens : read_users_me(token)
    \/ \E token \in tokens \cup ForgedTokens : get_my_farms_with_token(token)
    \/ \E token \in tokens :
          create_farm_with_token(token, [total_area |-> 2, cultivated_area |-> 1])
    \/ Tick

SpecAuth == InitAuth /\ [][NextAuth]_vars

\* ------------------------------------------------------------ claim C10
\* the users a login request's credentials authenticate
Authenticates(credentials) ==
    {u \in DOMAIN users : /\ users[u].email = credentials[1]
                          /\ verify_password(credentials[2], users[u].password_hash)}

FarmScopedOps == {"get_farm", "update_farm", "delete_farm"}

\* the request that response' answers names a farm, or a recommendation of a
\* farm, that is stored and whose owner is not the requester
ForeignRequest ==
    \/ /\ response'.op \in FarmScopedOps
       /\ response'.target \in DOMAIN farms
       /\ farms[response'.target].owner_id # response'.user
    \/ /\ response'.op = "provide_recommendation_feedback"
       /\ response'.target \in DOMAIN recommendations
       /\ recommendations[response'.target].farm_id \in DOMAIN farms
       /\ farms[recommendations[response'.target].farm_id].owner_id # response'.user

\* C1: get_farm, update_farm, delete_farm and provide_recommendation_feedback
\* issued by a user on a farm (or a recommendation of a farm) owned by somebody
\* else answer 404 and leave every farm and recommendation unchanged; a farm is
\* returned, changed or deleted only on a request of its owner.
C1_OwnerIsolation ==
    [][ /\ (response' # response /\ ForeignRequest) =>
              (response'.status = 404 /\ UNCHANGED <<farms, recommendations>>)
        /\ (response'.op = "get_farm" /\ response'.status = 200) =>
              \A f \in response'.rows : f \in DOMAIN farms /\ farms[f].owner_id = response'.user
        /\ \A f \in DOMAIN farms :
              (f \notin DOMAIN farms' \/ farms'[f] # farms[f]) =>
                  farms[f].owner_id = response'.user
        /\ \A r \in DOMAIN recommendations :
              (r \notin DOMAIN recommendations' \/ recommendations'[r] # recommendations[r]) =>
                  OwnedFarm(recommendations[r].farm_id, response'.user)
      ]_vars

\* a user has asked to update a stored farm of another user and got 404
C1_Witness ==
    /\ response.op = "update_farm"
    /\ response.status = 404
    /\ response.target \in DOMAIN farms
    /\ farms[response.target].owner_id # response.user

\* ------------------------------------------------------------- claim C2
CreateOps == {"create_soil_profile", "create_climate_record", "create_crop_cycle"}

TableOf(op, soil, climate, cycles) ==
    IF op = "create_soil_profile" THEN soil
    ELSE IF op = "create_climate_record" THEN climate
    ELSE cycles

\* C2: for a farm the caller owns, create_soil_profile, create_climate_record
\* and create_crop_cycle succeed on a valid body and store exactly one new
\* record, whose farm_id is the farm id of the path; the list operation of that
\* farm then returns it.
C2_CreateStoresRecord ==
    [][ (/\ response' # response
         /\ response'.op \in CreateOps
         /\ OwnedFarm(response'.target, response'.user)) =>
           LET before == TableOf(response'.op, soil_profiles, climate_records, crop_cycles)
               after == TableOf(response'.op, soil_profiles', climate_records', crop_cycles')
               new == DOMAIN after \ DOMAIN before
           IN /\ response'.status = 200
              /\ Cardinality(new) = 1
              /\ \A i \in new : after[i].farm_id = response'.target
              /\ \A i \in DOMAIN before : i \in DOMAIN after /\ after[i] = before[i]
              /\ new \subseteq RowsOfFarm(after, response'.target)
      ]_vars

\* ------------------------------------------------------- engine: numbers
\* The engine computes with Python floats. The model carries scores and
\* weights in thousandths (One is 1.0), yields in thousandths of a ton per
\* hectare, pH and organic matter in tenths, and the other quantities in
\* their own unit; a quotient is cut to the thousandth.
One == 1000
Zero == 0
Half == 500
Tenths(n) == n * 100
Hundredths(n) == n * 10

\* a / b of two quantities of one unit, and s * t of a quantity and a score
Over(a, b) == (a * One) \div b
Times(s, t) == (s * t) \div One

min(a, b) == IF b < a THEN b ELSE a
max(a, b) == IF a < b THEN b ELSE a
abs(a) == IF a < 0 THEN -a ELSE a

RECURSIVE sum(_)
sum(scores) == IF scores = <<>> THEN 0 ELSE Head(scores) + sum(Tail(scores))

\* np.mean
mean(scores) == sum(scores) \div Len(scores)

\* a falsy number: None or 0
None == 0
Truthy(x) == x # 0

\* ------------------------------------------------------- engine: inputs
MaxSeeds == 11

\* Seed rows of init_sample_data, a row with the optional columns unset, and
\* an object that is not a Seed: it lacks the attributes named in missing.
SeedRow(variety_name, crop_type, yield_potential, tolerances, ph, requirements, rainfall, temp, altitude, market_demand, missing) ==
    [variety_name |-> variety_name, crop_type |-> crop_type,
     yield_potential |-> yield_potential,
     drought_tolerance |-> Tenths(tolerances[1]),
     flood_tolerance |-> Tenths(tolerances[2]),
     heat_tolerance |-> Tenths(tolerances[3]),
     cold_tolerance |-> Tenths(tolerances[4]),
     preferred_ph_min |-> ph[1], preferred_ph_max |-> ph[2],
     nitrogen_requirement |-> requirements[1],
     phosphorus_requirement |-> requirements[2],
     potassium_requirement |-> requirements[3],
     min_rainfall |-> rainfall[1], max_rainfall |-> rainfall[2],
     optimal_temp_min |-> temp[1], optimal_temp_max |-> temp[2],
     altitude_min |-> altitude[1], altitude_max |-> altitude[2],
     market_demand |-> market_demand, missing |-> missing]

sample_seeds ==
    << SeedRow("Longe 10H", "maize", 6500, <<7, 4, 6, 5>>, <<58, 70>>,
               <<"medium", "medium", "medium">>, <<500, 1200>>, <<18, 30>>,
               <<1000, 2100>>, "None", {}),
       SeedRow("NAROBEAN 1", "beans", 2500, <<6, 3, 5, 7>>, <<60, 75>>,
               <<"low", "high", "medium">>, <<400, 800>>, <<16, 28>>,
               <<1200, 2500>>, "None", {}),
       SeedRow("NAROCASS 1", "cassava", 25000, <<9, 3, 8, 4>>, <<45, 70>>,
               <<"low", "medium", "high">>, <<600, 1500>>, <<20, 35>>,
               <<500, 1800>>, "None", {}),
       SeedRow("Serenut 5R", "groundnuts", 3000, <<8, 2, 7, 4>>, <<60, 75>>,
               <<"low", "high", "medium">>, <<500, 1000>>, <<20, 30>>,
               <<500, 1500>>, "None", {}),
       SeedRow("Landrace", "rice", None, <<5, 5, 5, 5>>, <<0, 0>>,
               <<"medium", "unknown", "medium">>, <<0, 0>>, <<0, 0>>,
               <<0, 0>>, "high", {}),
       SeedRow("Untyped", "maize", 2000, <<5, 5, 5, 5>>, <<60, 70>>,
               <<"medium", "medium", "medium">>, <<500, 1200>>, <<0, 0>>,
               <<1000, 2000>>, "medium", {"optimal_temp_min", "optimal_temp_max"}) >>

\* the seeds table: ids 1..MaxSeeds, the sample rows repeated
Seed(id) ==
    [id |-> id] @@ sample_seeds[((id - 1) % Len(sample_seeds)) + 1]

\* an object without yield_potential
NotASeed ==
    [id |-> 0] @@ [sample_seeds[1] EXCEPT !.missing = {"yield_potential"}]

\* candidate lists: the result of a seeds query (id order), and one list that
\* holds an object that is not a Seed
AvailableSeeds ==
    { [i \in 1..n |-> Seed(i)] : n \in {0, 3, MaxSeeds} }
        \cup { [i \in 1..(MaxSeeds - 1) |-> Seed(i + 1)] }
        \cup { <<Seed(1), NotASeed, Seed(2)>> }

\* farms: a Farm row with and without elevation, an object with an id only,
\* and None
FarmObject(id, elevation, attrs) == [id |-> id, elevation |-> elevation, attrs |-> attrs]
FarmAttrs == {"id", "latitude", "longitude", "elevation"}
Farms ==
    { FarmObject(1, 1100, FarmAttrs),
      FarmObject(0, None, FarmAttrs),
      FarmObject(2, None, {"id"}),
      FarmObject(0, None, {}) }

\* years counted from datetime.now().year
Years == {0, 1}
Seasons == {"A", "B"}

\* preferences: None, or a dict with market_preference
Preferences == {"None", "export", "local"}


\* ------------------------------------------- engine: environmental data
\* What the weather, climate and soil services return for a farm. With numpy
\* they draw synthetic data at random (np.random.normal, np.random.choice);
\* two of the possible draws.
ServiceDraws ==
    { [avg_temp |-> 24, extreme_max |-> 31, extreme_min |-> 21,
       total_annual_rainfall |-> 900, rainfall_variability |-> Tenths(2),
       avg_humidity |-> 70, ph_level |-> 60,
       organic_matter |-> 44, nitrogen |-> 30,
       phosphorus |-> 24, potassium |-> 120,
       texture |-> "clay_loam", overall_risk |-> Tenths(1)],
      [avg_temp |-> 15, extreme_max |-> 23, extreme_min |-> 11,
       total_annual_rainfall |-> 1500, rainfall_variability |-> Tenths(5),
       avg_humidity |-> 65, ph_level |-> 60,
       organic_matter |-> 20, nitrogen |-> 15,
       phosphorus |-> 36, potassium |-> 180,
       texture |-> "clay", overall_risk |-> Tenths(2)] }

\* soil_service._estimate_drainage
_estimate_drainage(texture, organic_matter) ==
    LET base_drainage ==
            CASE texture \in {"sand", "loamy_sand"} -> "excellent"
              [] texture \in {"sandy_loam", "loam"} -> "good"
              [] texture \in {"silt_loam", "silt", "sandy_clay_loam", "clay_loam"} -> "fair"
              [] texture \in {"silty_clay_loam", "sandy_clay", "silty_clay", "clay"} -> "poor"
              [] OTHER -> "fair"
    IN IF organic_matter > 40 /\ base_drainage = "poor" THEN "fair"
       ELSE IF organic_matter > 40 /\ base_drainage = "fair" THEN "good"
       ELSE base_drainage

_texture_to_score(texture) ==
    CASE texture \in {"clay", "sand"} -> Tenths(4)
      [] texture = "sandy_clay" -> Tenths(5)
      [] texture \in {"silty_clay", "silt", "loamy_sand"} -> Tenths(6)
      [] texture \in {"sandy_clay_loam", "silty_clay_loam"} -> Tenths(7)
      [] texture \in {"clay_loam", "sandy_loam"} -> Tenths(8)
      [] texture = "silt_loam" -> Tenths(9)
      [] texture = "loam" -> One
      [] OTHER -> Tenths(7)

_drainage_to_score(drainage) ==
    CASE drainage = "poor" -> Tenths(3)
      [] drainage = "fair" -> Tenths(6)
      [] drainage = "good" -> Tenths(8)
      [] drainage = "excellent" -> One
      [] OTHER -> Tenths(7)

_requirement_to_score(requirement) ==
    CASE requirement = "low" -> Tenths(3)
      [] requirement = "medium" -> Tenths(6)
      [] requirement = "high" -> Tenths(9)
      [] OTHER -> Tenths(6)

\* the default conditions of _analyze_environmental_conditions
DefaultConditions ==
    [temperature_avg |-> 25, temperature_range |-> 10,
     annual_rainfall |-> 1200, rainfall_variability |-> Tenths(3),
     humidity_avg |-> 70, soil_ph |-> 65,
     soil_organic_matter |-> 25, soil_nitrogen |-> 25,
     soil_phosphorus |-> 20, soil_potassium |-> 120,
     soil_texture_score |-> Tenths(7), drainage_score |-> Tenths(7),
     altitude |-> 1200, climate_risk_score |-> Tenths(3)]

\* _calculate_rainfall_variability: np.std / np.mean of the monthly rainfall,
\* and 0.3 when that raises; np is None when the ML packages are not
\* available
_calculate_rainfall_variability(self, draw) ==
    IF self.ML_AVAILABLE THEN draw.rainfall_variability ELSE Tenths(3)

\* _analyze_environmental_conditions. The services raise without numpy
\* (their np is unbound), and a farm without coordinates raises: both end in
\* the default conditions. No projections are made for a year that is not
\* in the future, and then every climate risk is 0.
_analyze_environmental_conditions(self, farm, season, year, draw) ==
    IF ~self.HAS_NUMPY \/ ~({"latitude", "longitude", "elevation"} \subseteq farm.attrs)
    THEN DefaultConditions
    ELSE [temperature_avg |-> draw.avg_temp,
          temperature_range |-> draw.extreme_max - draw.extreme_min,
          annual_rainfall |-> draw.total_annual_rainfall,
          rainfall_variability |-> _calculate_rainfall_variability(self, draw),
          humidity_avg |-> draw.avg_humidity,
          soil_ph |-> draw.ph_level,
          soil_organic_matter |-> draw.organic_matter,
          soil_nitrogen |-> draw.nitrogen,
          soil_phosphorus |-> draw.phosphorus,
          soil_potassium |-> draw.potassium,
          soil_texture_score |-> _texture_to_score(draw.texture),
          drainage_score |->
              _drainage_to_score(_estimate_drainage(draw.texture, draw.organic_matter)),
          altitude |-> IF Truthy(farm.elevation) THEN farm.elevation ELSE 1200,
          climate_risk_score |-> IF year <= 0 THEN Zero ELSE draw.overall_risk]

\* ------------------------------------------------ engine: scoring helpers
_score_range_compatibility(value, min_val, max_val) ==
    IF min_val <= value /\ value <= max_val THEN One
    ELSE IF value < min_val
         THEN max(Zero, One - Over(min_val - value, min_val))
         ELSE max(Zero, One - Over(value - max_val, max_val))

_calculate_texture_compatibility(crop_type, texture_score) ==
    LET preference ==
            CASE crop_type = "maize" -> Tenths(8)
              [] crop_type \in {"beans", "sweet_potato", "groundnuts"} -> Tenths(9)
              [] crop_type = "cassava" -> Tenths(7)
              [] crop_type = "rice" -> Tenths(3)
              [] OTHER -> Tenths(7)
    IN IF crop_type = "rice" THEN One - texture_score
       ELSE min(One, Times(texture_score, preference))

Range(value, min_val, max_val) ==
    IF Truthy(min_val) /\ Truthy(max_val)
    THEN <<_score_range_compatibility(value, min_val, max_val)>>
    ELSE <<>>

\* the list scores of _calculate_climate_compatibility
climate_scores(seed, env_conditions) ==
    Range(env_conditions.temperature_avg, seed.optimal_temp_min, seed.optimal_temp_max)
    \o Range(env_conditions.annual_rainfall, seed.min_rainfall, seed.max_rainfall)
    \o Range(env_conditions.altitude, seed.altitude_min, seed.altitude_max)
    \o << Times(seed.drought_tolerance, One - env_conditions.climate_risk_score),
          One - abs(seed.flood_tolerance - max(Zero, One - env_conditions.drainage_score)) >>

ClimateAttrs ==
    {"optimal_temp_min", "optimal_temp_max", "min_rainfall", "max_rainfall",
     "altitude_min", "altitude_max", "drought_tolerance", "flood_tolerance"}

\* _calculate_climate_compatibility: np.mean(scores), and 0.5 when anything
\* raises; np is None when the ML packages are not available
_calculate_climate_compatibility(seed, env_conditions, ML_AVAILABLE) ==
    IF ~ML_AVAILABLE \/ seed.missing \cap ClimateAttrs # {}
    THEN Half
    ELSE mean(climate_scores(seed, env_conditions))

soil_scores(seed, env_conditions) ==
    Range(env_conditions.soil_ph, seed.preferred_ph_min, seed.preferred_ph_max)
    \o << One - abs(_requirement_to_score(seed.nitrogen_requirement)
                       - min(One, Over(env_conditions.soil_nitrogen, 50))),
          One - abs(_requirement_to_score(seed.phosphorus_requirement)
                       - min(One, Over(env_conditions.soil_phosphorus, 40))),
          One - abs(_requirement_to_score(seed.potassium_requirement)
                       - min(One, Over(env_conditions.soil_potassium, 200))),
          min(One, Over(env_conditions.soil_organic_matter, 40)),
          _calculate_texture_compatibility(seed.crop_type, env_conditions.soil_texture_score) >>

SoilAttrs ==
    {"preferred_ph_min", "preferred_ph_max", "nitrogen_requirement",
     "phosphorus_requirement", "potassium_requirement", "crop_type"}

_calculate_soil_compatibility(seed, env_conditions, ML_AVAILABLE) ==
    IF ~ML_AVAILABLE \/ seed.missing \cap SoilAttrs # {}
    THEN Half
    ELSE mean(soil_scores(seed, env_conditions))

ToleranceAttrs ==
    {"drought_tolerance", "flood_tolerance", "heat_tolerance", "cold_tolerance"}

_calculate_risk_score(seed, env_conditions, ML_AVAILABLE) ==
    IF ~ML_AVAILABLE \/ seed.missing \cap ToleranceAttrs # {}
    THEN Half
    ELSE LET climate_risk == env_conditions.climate_risk_score
             adaptation_score == mean(<<seed.drought_tolerance, seed.flood_tolerance,
                                        seed.heat_tolerance, seed.cold_tolerance>>)
             climate_mismatch ==
                 One - _calculate_climate_compatibility(seed, env_conditions, ML_AVAILABLE)
             soil_mismatch ==
                 One - _calculate_soil_compatibility(seed, env_conditions, ML_AVAILABLE)
             variability_risk == env_conditions.rainfall_variability
             total_risk ==
                 Times(climate_risk, Tenths(3))
                 + Times(One - adaptation_score, Hundredths(25))
                 + Times(climate_mismatch, Tenths(2))
                 + Times(soil_mismatch, Hundredths(15))
                 + Times(variability_risk, Tenths(1))
         IN min(One, max(Zero, total_risk))



_estimate_yield_simple(seed, env_conditions, ML_AVAILABLE) ==
    IF "yield_potential" \in seed.missing
    THEN Raise
    ELSE LET base_yield == IF Truthy(seed.yield_potential) THEN seed.yield_potential
                           ELSE 2000
             climate_factor == _calculate_climate_compatibility(seed, env_conditions, ML_AVAILABLE)
             soil_factor == _calculate_soil_compatibility(seed, env_conditions, ML_AVAILABLE)
             risk_factor == One - _calculate_risk_score(seed, env_conditions, ML_AVAILABLE)
             yield_factor == Times(climate_factor, Tenths(4))
                             + Times(soil_factor, Tenths(4))
                             + Times(risk_factor, Tenths(2))
         IN Return(Times(base_yield, yield_factor))

\* estimators and scalers: not fitted, or fitted; of a fitted yield predictor
\* the model keeps what it predicts
ModelNames == {"yield_predictor", "climate_compatibility", "soil_compatibility", "risk_predictor"}
ScalerNames == {"environmental", "seed_features", "yield_features"}
Regressors == {"predicts_low", "predicts_high"}
predict(regressor) == IF regressor = "predicts_low" THEN Zero ELSE 1000 * One

Lookup(dict, name) == (CHOOSE item \in dict : item[1] = name)[2]

FeatureAttrs ==
    {"maturity_days", "yield_potential", "preferred_ph_min", "preferred_ph_max",
     "min_rainfall", "max_rainfall"} \cup ToleranceAttrs

_predict_yield(self, seed, env_conditions) ==
    IF ~self.ML_AVAILABLE \/ ~self.is_trained
    THEN _estimate_yield_simple(seed, env_conditions, self.ML_AVAILABLE)
    ELSE IF \/ seed.missing \cap FeatureAttrs # {}
            \/ Lookup(self.scalers, "environmental") = "unfitted"
            \/ Lookup(self.models, "yield_predictor") = "unfitted"
         THEN _estimate_yield_simple(seed, env_conditions, self.ML_AVAILABLE)
         ELSE LET predicted_yield == predict(Lookup(self.models, "yield_predictor"))
                  max_yield == IF Truthy(seed.yield_potential) THEN seed.yield_potential
                               ELSE 5000
              IN Return(max(Tenths(1), min(predicted_yield, Times(max_yield, Tenths(12)))))

_calculate_market_score(seed, preferences) ==
    IF preferences = "None"
    THEN Tenths(7)
    ELSE LET market_demand == IF "market_demand" \in seed.missing THEN "medium"
                              ELSE seed.market_demand
             score == IF preferences = "export" /\ market_demand = "high"
                      THEN Tenths(7) + Tenths(2)
                      ELSE IF preferences = "local" /\ market_demand \in {"medium", "high"}
                           THEN Tenths(7) + Tenths(1)
                           ELSE Tenths(7)
         IN min(One, score)

\* _generate_reasoning; a reason is its text and, where the text names it, the
\* variety
_generate_reasoning(seed, env_conditions, climate_score, soil_score, risk_score) ==
    IF seed.missing \cap {"drought_tolerance", "yield_potential"} # {}
    THEN << <<"Analysis completed for", seed.variety_name>> >>
    ELSE << IF climate_score > Tenths(8)
            THEN <<"Excellent climate match for", seed.variety_name>>
            ELSE IF climate_score > Tenths(6)
                 THEN <<"Good climate compatibility for", seed.variety_name>>
                 ELSE <<"Climate challenges may affect performance", seed.variety_name>>,
            IF soil_score > Tenths(8)
            THEN <<"Soil conditions are ideal for this variety">>
            ELSE IF soil_score > Tenths(6)
                 THEN <<"Soil conditions are suitable with minor adjustments">>
                 ELSE <<"Soil amendments recommended for optimal performance">>,
            IF risk_score < Tenths(3)
            THEN <<"Low risk option with stable performance expected">>
            ELSE IF risk_score < Tenths(6)
                 THEN <<"Moderate risk with good adaptation potential">>
                 ELSE <<"Higher risk option requiring careful management">> >>
         \o (IF seed.drought_tolerance > Tenths(7)
             THEN << <<"High drought tolerance suitable for dry conditions">> >>
             ELSE <<>>)
         \o (IF Truthy(seed.yield_potential) /\ seed.yield_potential > 5000
             THEN << <<"High yield potential variety">> >>
             ELSE <<>>)

_calculate_confidence_level(self, env_conditions, seed) ==
    IF seed.missing \cap {"yield_potential", "optimal_temp_min", "optimal_temp_max"} # {}
    THEN Raise
    ELSE LET a == IF env_conditions.climate_risk_score = Tenths(3) THEN Tenths(1) ELSE Zero
             b == IF ~Truthy(seed.yield_potential) THEN Tenths(1) ELSE Zero
             c == IF ~Truthy(seed.optimal_temp_min) \/ ~Truthy(seed.optimal_temp_max)
                  THEN Tenths(1) ELSE Zero
             d == IF ~self.is_trained THEN Tenths(2) ELSE Zero
         IN Return(max(Tenths(3), One - a - b - c - d))

SeedCompatibility(seed_id, compatibility_score, climate_match_score, soil_match_score, yield_prediction, risk_score, confidence_level, reasons) ==
    [seed_id |-> seed_id, compatibility_score |-> compatibility_score,
     climate_match_score |-> climate_match_score, soil_match_score |-> soil_match_score,
     yield_prediction |-> yield_prediction, risk_score |-> risk_score,
     confidence_level |-> confidence_level, reasons |-> reasons]

\* the weighted sum of _analyze_seed_compatibility, before it is clamped
weighted_sum(feature_weights, seed, climate_score, soil_score, yield_prediction, risk_score, market_score) ==
    Times(climate_score, feature_weights.climate_compatibility)
    + Times(soil_score, feature_weights.soil_compatibility)
    + Times(Over(yield_prediction,
                 IF Truthy(seed.yield_potential) THEN seed.yield_potential ELSE One),
            feature_weights.yield_potential)
    + Times(One - risk_score, feature_weights.risk_tolerance)
    + Times(market_score, feature_weights.market_factors)

\* a variant that keeps the sum as it is
unclamped(compatibility_score) == compatibility_score

\* min(1.0, max(0.0, compatibility_score))
clamp(compatibility_score) == min(One, max(Zero, compatibility_score))

\* the entry the except branch of _analyze_seed_compatibility returns
default_entry(seed) ==
    SeedCompatibility(seed.id, Half, Half, Half,
                      IF Truthy(seed.yield_potential) THEN seed.yield_potential ELSE One,
                      Half, Tenths(3), << <<"Analysis error occurred">> >>)

\* the try block of _analyze_seed_compatibility, from the component scores on
compatibility_of(self, seed, env_conditions, climate_score, soil_score, yield_prediction, risk_score, market_score, confidence) ==
    IF yield_prediction.raised \/ confidence.raised \/ "id" \in seed.missing
    THEN Raise
    ELSE Return(SeedCompatibility(
             seed.id,
             clamp(weighted_sum(self.feature_weights, seed, climate_score, soil_score,
                                yield_prediction.value, risk_score, market_score)),
             climate_score, soil_score, yield_prediction.value, risk_score,
             confidence.value,
             _generate_reasoning(seed, env_conditions, climate_score, soil_score,
                                 risk_score)))

\* the try block of _analyze_seed_compatibility
try_analyze_seed_compatibility(self, seed, env_conditions, preferences) ==
    compatibility_of(self, seed, env_conditions,
        _calculate_climate_compatibility(seed, env_conditions, self.ML_AVAILABLE),
        _calculate_soil_compatibility(seed, env_conditions, self.ML_AVAILABLE),
        IF self.is_trained THEN _predict_yield(self, seed, env_conditions)
        ELSE _estimate_yield_simple(seed, env_conditions, self.ML_AVAILABLE),
        _calculate_risk_score(seed, env_conditions, self.ML_AVAILABLE),
        _calculate_market_score(seed, preferences),
        _calculate_confidence_level(self, env_conditions, seed))

\* the except branch of _analyze_seed_compatibility: the default entry where
\* the try block raised
except_default(seed, compatibility) ==
    IF ~compatibility.raised THEN compatibility
    ELSE IF seed.missing \cap {"id", "yield_potential"} # {} THEN Raise
    ELSE Return(default_entry(seed))

\* a variant without the except branch
_analyze_seed_compatibility_uncaught(self, seed, env_conditions, preferences) ==
    try_analyze_seed_compatibility(self, seed, env_conditions, preferences)

\* _analyze_seed_compatibility: the try block, and the default entry when it
\* raises; building the default entry reads seed.id and seed.yield_potential
_analyze_seed_compatibility(self, seed, env_conditions, preferences) ==
    except_default(seed, try_analyze_seed_compatibility(self, seed, env_conditions, preferences))


\* ------------------------------------------------ engine: the instance
feature_weights ==
    [climate_compatibility |-> Tenths(3), soil_compatibility |-> Hundredths(25),
     yield_potential |-> Tenths(2), risk_tolerance |-> Hundredths(15),
     market_factors |-> Tenths(1)]

\* _initialize_models
_initialize_models(ML_AVAILABLE, names) ==
    IF ML_AVAILABLE THEN {<<name, "unfitted">> : name \in names} ELSE {}

\* SeedRecommendationEngine.__init__
SeedRecommendationEngine(ML_AVAILABLE, HAS_NUMPY) ==
    [ML_AVAILABLE |-> ML_AVAILABLE, HAS_NUMPY |-> HAS_NUMPY,
     models |-> _initialize_models(ML_AVAILABLE, ModelNames),
     scalers |-> _initialize_models(ML_AVAILABLE, ScalerNames),
     is_trained |-> FALSE,
     feature_weights |-> feature_weights]

\* the import guards: ML_AVAILABLE needs numpy, pandas, scikit-learn and
\* joblib; the services need numpy
Installations == {c \in [ML_AVAILABLE : BOOLEAN, HAS_NUMPY : BOOLEAN] :
                     c.ML_AVAILABLE => c.HAS_NUMPY}

fitted(self, regressor) ==
    [self EXCEPT !.models = {<<name, IF name = "yield_predictor" THEN regressor ELSE "fitted">> :
                                name \in ModelNames},
                 !.scalers = {<<name, IF name = "environmental" THEN "fitted" ELSE "unfitted">> :
                                name \in ScalerNames}]

loaded(self, regressor) ==
    [self EXCEPT !.models = {<<name, IF name = "yield_predictor" THEN regressor ELSE "fitted">> :
                                name \in ModelNames},
                 !.scalers = {<<name, "fitted">> : name \in ScalerNames}]

\* ------------------------------------------ engine: generate_recommendations
\* list.sort(key=lambda x: x.compatibility_score, reverse=True): stable
RECURSIVE insert_by_score(_, _)
insert_by_score(sorted, x) ==
    IF sorted = <<>> THEN <<x>>
    ELSE IF Head(sorted).compatibility_score < x.compatibility_score
         THEN <<x>> \o sorted
         ELSE <<Head(sorted)>> \o insert_by_score(Tail(sorted), x)

\* a variant that leaves the list in the order of the candidates
unsorted(recommendations_list) == recommendations_list

RECURSIVE sort(_)
sort(recommendations_list) ==
    IF recommendations_list = <<>> THEN <<>>
    ELSE insert_by_score(sort(SubSeq(recommendations_list, 1, Len(recommendations_list) - 1)),
                         recommendations_list[Len(recommendations_list)])

TopN == 10

\* recommendations[:10]
top(ranked) == SubSeq(ranked, 1, IF Len(ranked) < TopN THEN Len(ranked) ELSE TopN)

\* the ranked entries, or the empty list of the outer except branch
ranking(farm, analysed) ==
    IF "id" \notin farm.attrs \/ \E i \in 1..Len(analysed) : analysed[i].raised
    THEN <<>>
    ELSE top(sort([i \in 1..Len(analysed) |-> analysed[i].value]))

\* the value generate_recommendations returns
recommend(self, farm, available_seeds, env_conditions, preferences) ==
    ranking(farm, [i \in 1..Len(available_seeds) |->
                      _analyze_seed_compatibility(self, available_seeds[i], env_conditions,
                                                  preferences)])

Request(farm, available_seeds, season, year, preferences) ==
    [farm |-> farm, available_seeds |-> available_seeds, season |-> season,
     year |-> year, preferences |-> preferences]

NoRepeat == [same_arguments |-> FALSE, same_conditions |-> FALSE]

\* how a call relates to the call before it
Repeats(request, env_conditions) ==
    IF call.op = "generate_recommendations"
    THEN [same_arguments |-> call.request = request,
          same_conditions |-> call.env_conditions = env_conditions]
    ELSE NoRepeat

\* a variant that marks the instance trained after it has scored
generate_recommendations_and_train(farm, available_seeds, season, year, preferences, draw) ==
    \E env_conditions \in {_analyze_environmental_conditions(engine, farm, season, year, draw)} :
    LET request == Request(farm, available_seeds, season, year, preferences)
    IN /\ call' = [op |-> "generate_recommendations", request |-> request,
                   farm |-> farm, available_seeds |-> available_seeds,
                   env_conditions |-> env_conditions]
       /\ result' = recommend(engine, farm, available_seeds, env_conditions, preferences)
       /\ prev' = Repeats(request, env_conditions)
       /\ engine' = [engine EXCEPT !.is_trained = TRUE]

\* a variant that stores the default altitude in the farm it was given
generate_recommendations_in_place(farm, available_seeds, season, year, preferences, draw) ==
    \E env_conditions \in {_analyze_environmental_conditions(engine, farm, season, year, draw)} :
    LET request == Request(farm, available_seeds, season, year, preferences)
    IN /\ call' = [op |-> "generate_recommendations", request |-> request,
                   farm |-> [farm EXCEPT !.elevation = IF Truthy(@) THEN @ ELSE 1200],
                   available_seeds |-> available_seeds,
                   env_conditions |-> env_conditions]
       /\ result' = recommend(engine, farm, available_seeds, env_conditions, preferences)
       /\ prev' = Repeats(request, env_conditions)
       /\ UNCHANGED engine

\* generate_recommendations(farm, available_seeds, season, year, preferences);
\* draw is what the services return during the call. call keeps the
\* arguments as they were passed (request) and the farm and seed objects as
\* they are after the call.
generate_recommendations(farm, available_seeds, season, year, preferences, draw) ==
    \E env_conditions \in {_analyze_environmental_conditions(engine, farm, season, year, draw)} :
    LET request == Request(farm, available_seeds, season, year, preferences)
    IN /\ call' = [op |-> "generate_recommendations", request |-> request,
                   farm |-> farm, available_seeds |-> available_seeds,
                   env_conditions |-> env_conditions]
       /\ result' = recommend(engine, farm, available_seeds, env_conditions, preferences)
       /\ prev' = Repeats(request, env_conditions)
       /\ UNCHANGED engine

\* a variant without the ML_AVAILABLE guard
train_models_unguarded(training_data, regressor) ==
    /\ call' = [op |-> "train_models", request |-> training_data]
    /\ prev' = NoRepeat
    /\ IF training_data = "None"
       THEN /\ result' = <<>>
            /\ UNCHANGED engine
       ELSE /\ result' = [yield_r2 |-> regressor, yield_mae |-> regressor,
                          climate_r2 |-> "fitted", soil_r2 |-> "fitted",
                          risk_r2 |-> "fitted"]
            /\ engine' = [engine EXCEPT !.is_trained = TRUE]

\* train_models(training_data): nothing without the ML packages; a data set
\* that cannot be read ends in the except branch; else the estimators and
\* the environmental scaler are fitted
train_models(training_data, regressor) ==
    /\ call' = [op |-> "train_models", request |-> training_data]
    /\ prev' = NoRepeat
    /\ IF ~engine.ML_AVAILABLE
       THEN /\ result' = [status |-> "skipped", fallback_mode |-> TRUE]
            /\ UNCHANGED engine
       ELSE IF training_data = "None"
            THEN /\ result' = <<>>
                 /\ UNCHANGED engine
            ELSE /\ result' = [yield_r2 |-> regressor, yield_mae |-> regressor,
                               climate_r2 |-> "fitted", soil_r2 |-> "fitted",
                               risk_r2 |-> "fitted"]
                 /\ engine' = [fitted(engine, regressor) EXCEPT !.is_trained = TRUE]

\* load_models(model_path): the files under model_path are absent, hold saved
\* estimators, or cannot be read
load_models(files) ==
    /\ call' = [op |-> "load_models", request |-> files]
    /\ prev' = NoRepeat
    /\ result' = <<>>
    /\ IF engine.models = {} \/ files = "absent"
       THEN engine' = [engine EXCEPT !.is_trained = TRUE]
       ELSE IF files = "unreadable"
            THEN engine' = [engine EXCEPT !.is_trained = FALSE]
            ELSE engine' = [loaded(engine, files) EXCEPT !.is_trained = TRUE]

\* ------------------------------------------------ specification SpecEngine
Requests ==
    { Request(FarmObject(1, 1100, FarmAttrs), available_seeds, "A", 1, "None") :
         available_seeds \in AvailableSeeds }
      \cup { Request(FarmObject(1, 1100, FarmAttrs), [i \in 1..3 |-> Seed(i)], "A", year, "None") :
                year \in Years }
      \cup { Request(farm, [i \in 1..3 |-> Seed(i + 3)], "B", 1, "None") : farm \in Farms }
      \cup { Request(FarmObject(1, 1100, FarmAttrs), [i \in 1..3 |-> Seed(i + 3)], "B", 1,
                     preferences) : preferences \in Preferences }

InitEngine ==
    /\ farms = EmptyTable
    /\ soil_profiles = EmptyTable
    /\ climate_records = EmptyTable
    /\ crop_cycles = EmptyTable
    /\ recommendations = EmptyTable
    /\ seeds = EmptyTable
    /\ response = NoResponse
    /\ users = EmptyTable
    /\ tokens = {}
    /\ bearer = NoToken
    /\ now = 0
    /\ \E c \in Installations : engine = SeedRecommendationEngine(c.ML_AVAILABLE, c.HAS_NUMPY)
    /\ call = [op |-> "__init__"]
    /\ result = <<>>
    /\ prev = NoRepeat
    /\ soil_cache = EmptyTable
    /\ in_flight = EmptyTable

Offline == UNCHANGED <<dbVars, response, authVars, soil_cache, in_flight>>

NextEngine ==
    \/ \E r \in Requests, draw \in ServiceDraws :
          /\ generate_recommendations(r.farm, r.available_seeds, r.season, r.year,
                                      r.preferences, draw)
          /\ Offline
    \/ \E training_data \in {"None", "DataFrame"}, regressor \in Regressors :
          train_models(training_data, regressor) /\ Offline
    \/ \E files \in {"absent", "unreadable"} \cup Regressors :
          load_models(files) /\ Offline

SpecEngine == InitEngine /\ [][NextEngine]_vars

\* ------------------------------------------------------- claims C3 to C9
\* the state after a call of generate_recommendations
Generated == call.op = "generate_recommendations"

\* the candidate an entry of the result was computed for
Candidate(entry) ==
    CHOOSE seed \in {call.available_seeds[i] : i \in 1..Len(call.available_seeds)} :
        seed.id = entry.seed_id

\* the entry stands for a seed whose analysis failed
IsDefaultEntry(entry) == entry.reasons = << <<"Analysis error occurred">> >>

\* C3: generate_recommendations returns a ranking: at most 10 entries, in
\* order of non-increasing compatibility_score, every entry's seed_id the id
\* of a candidate passed in, and no candidate left out whose computed
\* compatibility_score is strictly higher than that of a returned entry.
C3_Ranking ==
    Generated =>
        LET candidates == call.available_seeds
            returned == {result[i].seed_id : i \in 1..Len(result)}
            computed(seed) ==
                _analyze_seed_compatibility(engine, seed, call.env_conditions,
                                            call.request.preferences).value.compatibility_score
        IN /\ Len(result) <= 10
           /\ \A i \in 1..(Len(result) - 1) :
                 result[i].compatibility_score >= result[i + 1].compatibility_score
           /\ \A i \in 1..Len(result) :
                 \E j \in 1..Len(candidates) : candidates[j].id = result[i].seed_id
           /\ result # <<>> =>
                 \A j \in 1..Len(candidates) :
                    candidates[j].id \notin returned =>
                       \A i \in 1..Len(result) :
                          computed(candidates[j]) <= result[i].compatibility_score

\* more candidates than the ranking holds, with different scores
C3_Witness ==
    /\ Generated
    /\ Len(call.available_seeds) > 10
    /\ Len(result) = 10
    /\ result[1].compatibility_score > result[10].compatibility_score

\* C4: the compatibility_score of a seed is 0.30 * climate_score
\* + 0.25 * soil_score + 0.20 * (yield_prediction / yield_potential, the
\* divisor 1 when yield_potential is unset) + 0.15 * (1 - risk_score)
\* + 0.10 * market_score, clamped to [0, 1]; the five weights sum to 1 and
\* every returned compatibility_score lies in [0, 1].
C4_WeightedSum ==
    /\ engine.feature_weights.climate_compatibility + engine.feature_weights.soil_compatibility
          + engine.feature_weights.yield_potential + engine.feature_weights.risk_tolerance
          + engine.feature_weights.market_factors = One
    /\ Generated =>
          \A i \in 1..Len(result) :
             LET entry == result[i]
                 seed == Candidate(entry)
                 divisor == IF seed.yield_potential = None THEN One ELSE seed.yield_potential
                 weighted ==
                     Times(entry.climate_match_score, Hundredths(30))
                     + Times(entry.soil_match_score, Hundredths(25))
                     + Times(Over(entry.yield_prediction, divisor), Hundredths(20))
                     + Times(One - entry.risk_score, Hundredths(15))
                     + Times(_calculate_market_score(seed, call.request.preferences),
                             Hundredths(10))
             IN /\ Zero <= entry.compatibility_score
                /\ entry.compatibility_score <= One
                /\ ~IsDefaultEntry(entry) =>
                      entry.compatibility_score =
                          (IF weighted > One THEN One
                           ELSE IF weighted < Zero THEN Zero ELSE weighted)

\* a weighted sum above 1, clamped
C4_Witness ==
    /\ Generated
    /\ \E i \in 1..Len(result) :
          /\ ~IsDefaultEntry(result[i])
          /\ result[i].compatibility_score = One
          /\ Over(result[i].yield_prediction, One) > One
          /\ Candidate(result[i]).yield_potential = None

\* C5: without the ML packages train_models trains nothing, returns the
\* status 'skipped' with fallback_mode true and leaves models, scalers and
\* is_trained unchanged, and every yield prediction is the simple estimate
\* base_yield * (0.4 * climate + 0.4 * soil + 0.2 * (1 - risk)).
C5_SimpleYield ==
    (Generated /\ ~engine.ML_AVAILABLE) =>
        \A i \in 1..Len(result) :
           LET entry == result[i]
               seed == Candidate(entry)
               base_yield == IF seed.yield_potential = None THEN 2000
                             ELSE seed.yield_potential
           IN ~IsDefaultEntry(entry) =>
                 entry.yield_prediction =
                     Times(base_yield,
                           Times(entry.climate_match_score, Tenths(4))
                           + Times(entry.soil_match_score, Tenths(4))
                           + Times(One - entry.risk_score, Tenths(2)))

C5_TrainingSkipped ==
    (~engine.ML_AVAILABLE /\ call'.op = "train_models") =>
        /\ result' = [status |-> "skipped", fallback_mode |-> TRUE]
        /\ engine'.models = engine.models
        /\ engine'.scalers = engine.scalers
        /\ engine'.is_trained = engine.is_trained

C5_Fallback == []C5_SimpleYield /\ [][C5_TrainingSkipped]_vars

\* train_models answered 'skipped' on an instance that load_models marked
\* trained
C5_Witness ==
    /\ ~engine.ML_AVAILABLE
    /\ engine.is_trained
    /\ call.op = "train_models"
    /\ result = [status |-> "skipped", fallback_mode |-> TRUE]

\* C6: whether or not the ML packages are available, the climate match score
\* of a seed is the mean of its applicable sub-scores (temperature, rainfall
\* and altitude range compatibility where both bounds are set, drought
\* tolerance * (1 - climate risk), 1 - |flood tolerance - flood risk|).
C6_ClimateScoreIsMean ==
    Generated =>
        \A i \in 1..Len(result) :
           ~IsDefaultEntry(result[i]) =>
              result[i].climate_match_score =
                  mean(climate_scores(Candidate(result[i]), call.env_conditions))

C8_Stateless ==
    [][call'.op = "generate_recommendations" =>
          /\ engine' = engine
          /\ call'.farm = call'.request.farm
          /\ call'.available_seeds = call'.request.available_seeds
          /\ result' = recommend(engine, call'.request.farm, call'.request.available_seeds,
                                 call'.env_conditions, call'.request.preferences)]_vars

\* a call on a trained instance for a farm without elevation, after another
\* call
C8_Witness ==
    /\ Generated
    /\ engine.is_trained
    /\ engine.models # {}
    /\ ~Truthy(call.farm.elevation)
    /\ "elevation" \in call.farm.attrs
    /\ result # <<>>
    /\ ~prev.same_arguments

\* C9: generate_recommendations returns a list whatever fails: a seed whose
\* analysis fails is ranked with its default entry (compatibility, climate,
\* soil and risk score 0.5, confidence 0.3, the one reason 'Analysis error
\* occurred'), a failure of the environmental analysis gives the default
\* conditions, and any other failure gives the empty list. The default entry
\* is built from the seed's id and yield_potential; where they cannot be read
\* the failure is one of the other failures.
C9_NoException ==
    Generated =>
        LET farm == call.request.farm
            candidates == call.available_seeds
            fails(seed) ==
                try_analyze_seed_compatibility(engine, seed, call.env_conditions,
                                               call.request.preferences).raised
            unreadable(seed) == seed.missing \cap {"id", "yield_potential"} # {}
            is_default(entry, seed) ==
                /\ entry.seed_id = seed.id
                /\ entry.compatibility_score = Half
                /\ entry.climate_match_score = Half
                /\ entry.soil_match_score = Half
                /\ entry.risk_score = Half
                /\ entry.confidence_level = Tenths(3)
                /\ entry.reasons = << <<"Analysis error occurred">> >>
        IN /\ DOMAIN result = 1..Len(result)
           /\ (~engine.HAS_NUMPY \/ ~({"latitude", "longitude", "elevation"} \subseteq farm.attrs))
                 => call.env_conditions = DefaultConditions
           /\ IF \/ "id" \notin farm.attrs
                 \/ \E j \in 1..Len(candidates) : unreadable(candidates[j])
              THEN result = <<>>
              ELSE /\ Len(result) = min(Len(candidates), 10)
                   /\ \A j \in 1..Len(candidates) :
                         fails(candidates[j]) =>
                            \/ \E i \in 1..Len(result) : is_default(result[i], candidates[j])
                            \/ /\ Len(result) = 10
                               /\ result[10].compatibility_score >= Half

\* a seed whose analysis failed, ranked with seeds whose analysis did not
C9_Witness ==
    /\ Generated
    /\ \E i, k \in 1..Len(result) :
          /\ IsDefaultEntry(result[i])
          /\ result[i].confidence_level = Tenths(3)
          /\ ~IsDefaultEntry(result[k])

\* ------------------------------------------------------------ claim C14
\* C14: after any sequence of provide_recommendation_feedback calls, the
\* farmer_feedback of every stored recommendation is unset or one of
\* 'accepted', 'rejected', 'implemented'.
C14_FeedbackValues ==
    \A r \in DOMAIN recommendations :
        recommendations[r].farmer_feedback \in {NULL, "accepted", "rejected", "implemented"}

Dashboard == response.op = "get_farm_dashboard" /\ response.status = 200

\* the statement as claimed: the reported utilization rate is in (0, 100]
C17_UtilizationRatePositive ==
    Dashboard =>
        /\ response.performance.utilization_rate > 0
        /\ response.performance.utilization_rate <= 1000

\* C17: every stored farm satisfies 0 < cultivated_area <= total_area after
\* any sequence of create_farm and update_farm, so get_farm_dashboard never
\* divides by zero and the utilization_rate it reports is in [0, 100]: it is
\* 0.0 where cultivated_area is less than 0.05 % of total_area, because the
\* rate is rounded to one decimal.
C17_UtilizationRate ==
    /\ \A f \in DOMAIN farms :
          /\ 0 < farms[f].cultivated_area
          /\ farms[f].cultivated_area <= farms[f].total_area
    /\ response.op = "get_farm_dashboard" => response.status \in {200, 404}
    /\ Dashboard =>
          /\ response.performance.utilization_rate >= 0
          /\ response.performance.utilization_rate <= 1000
          /\ response.performance.utilization_rate = 0 =>
                farms[response.target].cultivated_area * 2000 <= farms[response.target].total_area

\* the dashboard of a farm of 2500 hectares, 1 of them cultivated, next to a
\* farm that is cultivated entirely
C17_Witness ==
    /\ Dashboard
    /\ farms[response.target].total_area = 2500
    /\ response.performance.utilization_rate = 0
    /\ \E f \in DOMAIN farms : farms[f].cultivated_area = farms[f].total_area

\* --------------------------------------------- services/soil_service.py
\* uganda_service.locations, keyed by lower-case name
locations == {"kampala", "gulu"}

\* location names a caller passes: two spellings of one location, another
\* location, and a name that is not a location
LocationNames == {"Kampala", "kampala", "Gulu", "Atlantis"}

\* str.lower()
lower(name) ==
    IF name = "Kampala" THEN "kampala" ELSE IF name = "Gulu" THEN "gulu" ELSE name

\* uganda_service.get_location(name): self.locations.get(name.lower())
get_location(name) == IF lower(name) \in locations THEN lower(name) ELSE "None"

\* f"{location_name}_{location.latitude}_{location.longitude}"
cache_key(location_name, location) == <<location_name, location>>

\* get_soil_data_from_coordinates: a SoilData whose estimated fields are drawn
\* at random on every fetch, or NameError where numpy is not installed
Fetches == {Return("SoilData 1"), Return("SoilData 2"), Raise}

\* the clock of the soil service runs in steps of twelve hours
MaxHours == 36
Hour == 60
Sleep ==
    /\ now + 12 * Hour <= MaxHours * Hour
    /\ now' = now + 12 * Hour
    /\ UNCHANGED <<dbVars, response, users, tokens, bearer, engineVars, soil_cache, in_flight>>

SoilCall(location_name, hit) ==
    [op |-> "get_soil_for_ugandan_location", location_name |-> location_name,
     at |-> now, hit |-> hit]

\* SoilAnalysisService.get_soil_for_ugandan_location.  The function imports
\* datetime in its body, after the cache test: the name is local to the whole
\* function and still unbound where the cache test reads it, so the test
\* raises UnboundLocalError whenever the key is cached.
get_soil_for_ugandan_location(location_name, fetched) ==
    LET location == get_location(location_name)
        key == cache_key(location_name, location)
    IN /\ call' = SoilCall(location_name, location # "None" /\ key \in DOMAIN soil_cache)
       /\ IF location = "None"
          THEN result' = Return("None") /\ UNCHANGED soil_cache
          ELSE IF key \in DOMAIN soil_cache
          THEN result' = Raise /\ UNCHANGED soil_cache
          ELSE IF fetched.raised
          THEN result' = Raise /\ UNCHANGED soil_cache
          ELSE /\ soil_cache' = Insert(soil_cache, key, <<fetched.value, now>>)
               /\ result' = fetched
       /\ UNCHANGED <<engine, prev>>

\* ------------------------------------------------- specification SpecSoil
\* calls of get_soil_for_ugandan_location on the module's service instance as
\* time passes
NextSoil ==
    \/ \E location_name \in LocationNames, fetched \in Fetches :
          /\ get_soil_for_ugandan_location(location_name, fetched)
          /\ UNCHANGED <<dbVars, response, authVars, in_flight>>
    \/ Sleep

SpecSoil == Init /\ [][NextSoil]_vars

\* ------------------------------------------------------------ claim C20
\* C20: after a first successful call for a known location, a call for the
\* same location less than 24 hours later returns the cached SoilData without
\* fetching again, and a call 24 hours or more later fetches fresh data and
\* replaces the cache entry.
C20_CachePerLocation ==
    [][ \A location_name \in LocationNames, fetched \in Fetches :
          LET key == cache_key(location_name, get_location(location_name)) IN
          (key \in DOMAIN soil_cache /\ get_soil_for_ugandan_location(location_name, fetched)) =>
             IF now - soil_cache[key][2] < 24 * Hour
             THEN result' = Return(soil_cache[key][1]) /\ UNCHANGED soil_cache
             ELSE \/ fetched.raised
                  \/ /\ result' = fetched
                     /\ soil_cache'[key] = <<fetched.value, now>>
      ]_vars

\* ------------------------- api/recommendations.py: get_recommendations
\* the fifth variety of init_sample_data
Ejumula ==
    SeedRow("Ejumula", "sweet_potato", 20000, <<7, 4, 7, 5>>, <<55, 70>>,
            <<"medium", "medium", "high">>, <<500, 1000>>, <<18, 30>>,
            <<500, 2300>>, "None", {})

\* the Seed object of a row of the seeds table: the row's columns are those
\* init_sample_data gives its variety
SeedObject(id) ==
    LET varieties == {sample_seeds[1], sample_seeds[2], sample_seeds[3], sample_seeds[4], Ejumula}
    IN [id |-> id] @@ (CHOOSE row \in varieties : row.variety_name = seeds[id].variety_name)

\* the Seed objects of a list of ids
SeedObjects(ids) == [i \in 1..Len(ids) |-> SeedObject(ids[i])]

\* the Farm object of a row of the farms table; farm 1 has an elevation, the
\* other farms have none (the column is nullable)
FarmRow(farm_id) == FarmObject(farm_id, IF farm_id = 1 THEN 1100 ELSE None, FarmAttrs)

\* query.all(): the rows of a set of ids, in id order
all(ids) ==
    [i \in 1..Cardinality(ids) |-> CHOOSE x \in ids : Cardinality({y \in ids : y < x}) = i - 1]

\* db.query(Seed).filter(Seed.is_available == True), then, for a request that
\* names preferred crops, .filter(Seed.crop_type.in_(preferred_crops))
seed_query(preferred_crops) ==
    {id \in DOMAIN seeds :
        /\ seeds[id].is_available
        /\ preferred_crops # {} => seeds[id].crop_type \in preferred_crops}

\* RecommendationRequest bodies
RecommendationRequests ==
    [farm_id : FarmIds, season : {"A"}, year : {1},
     preferred_crops : {{}, {"maize", "beans"}, {"rice"}},
     market_preference : {"export"}]

\* what can fail between the first db.add and the end of db.commit
Failures == {"none", "after the first db.add", "db.commit"}

\* SeedRecommendation(farm_id=..., seed_id=..., ...) for an entry of the engine
SeedRecommendation(request, rec) ==
    [farm_id |-> request.farm_id, seed_id |-> rec.seed_id,
     season |-> request.season, year |-> request.year,
     suitability_score |-> rec.compatibility_score,
     climate_match_score |-> rec.climate_match_score,
     soil_match_score |-> rec.soil_match_score,
     risk_score |-> rec.risk_score,
     confidence_level |-> rec.confidence_level,
     expected_yield |-> rec.yield_prediction,
     farmer_feedback |-> NULL, implementation_notes |-> NULL]

\* the session's pending rows, flushed by db.commit() with the next free ids
commit(table, pending) ==
    [id \in DOMAIN table \cup {NextId(table) + i - 1 : i \in 1..Len(pending)} |->
        IF id \in DOMAIN table THEN table[id] ELSE pending[id - NextId(table) + 1]]

\* the response list: one dict per entry
RecommendationDict(rec) ==
    [id |-> 0, seed_id |-> rec.seed_id, seed_name |-> seeds[rec.seed_id].variety_name,
     suitability_score |-> rec.compatibility_score]

\* the step of the loop or the commit at which the failure strikes, if any
Fails(failure, recs) ==
    \/ failure = "db.commit"
    \/ failure = "after the first db.add" /\ Len(recs) >= 1

\* except Exception as e: raise HTTPException(status_code=500,
\*     detail=f"Error generating recommendations: {str(e)}")
Error500(op, user, target, e) ==
    Resp(op, user, target, 500, <<>>) @@ [detail |-> <<"Error generating recommendations:", e>>]

\* a session that keeps the row it had flushed when the failure struck
keep_flushed(table, pending) == commit(table, SubSeq(pending, 1, min(1, Len(pending))))

\* db.rollback(): the pending rows are discarded
rollback(table, pending) == table

\* get_recommendations(request, current_user, db).  The HTTPException for an
\* empty seed list is raised inside the try block, whose `except Exception`
\* catches it, rolls back and raises HTTPException(500).
get_recommendations(u, request, draw, failure) ==
    /\ NextId(recommendations) <= MaxRows
    /\ IF ~OwnedFarm(request.farm_id, u)
       THEN /\ response' = Resp("get_recommendations", u, request, 404, <<>>)
            /\ UNCHANGED <<dbVars, engineVars>>
       ELSE IF seed_query(request.preferred_crops) = {}
       THEN /\ response' = Error500("get_recommendations", u, request,
                                    "404: No suitable seeds found for the specified criteria")
            /\ UNCHANGED <<dbVars, engineVars>>
       ELSE \E farm \in {FarmRow(request.farm_id)},
               available_seeds \in {SeedObjects(all(seed_query(request.preferred_crops)))} :
               /\ generate_recommendations(farm, available_seeds, request.season,
                                           request.year, request.market_preference, draw)
               /\ LET pending == [i \in 1..Len(result') |-> SeedRecommendation(request, result'[i])]
                  IN IF Fails(failure, result')
                     THEN /\ response' = Error500("get_recommendations", u, request, failure)
                          /\ recommendations' = rollback(recommendations, pending)
                     ELSE /\ response' = Resp("get_recommendations", u, request, 200,
                                              [i \in 1..Len(result') |-> RecommendationDict(result'[i])])
                          /\ recommendations' = commit(recommendations, pending)
               /\ UNCHANGED <<farms, soil_profiles, climate_records, crop_cycles, seeds>>

\* ------------------------------------ main.py: get_quick_recommendation
CropTypes == {"maize", "rice"}

\* type('Farm', (), {'latitude': ..., 'longitude': ..., 'elevation': 1200, 'id': 0})()
temp_farm == FarmObject(0, 1200, FarmAttrs)

\* .limit(5).all()
limit(n, rows) == SubSeq(rows, 1, min(n, Len(rows)))

\* POST /api/quick-recommendation.  Like get_recommendations, it raises its 404
\* inside the try block whose `except Exception` turns it into a 500.
get_quick_recommendation(crop_type, season, draw) ==
    LET ids == limit(5, all({id \in DOMAIN seeds :
                                seeds[id].crop_type = crop_type /\ seeds[id].is_available}))
    IN /\ IF ids = <<>>
          THEN /\ response' = Error500("get_quick_recommendation", 0, crop_type,
                                       <<"404: No seeds available for crop type:", crop_type>>)
               /\ UNCHANGED engineVars
          ELSE /\ \E farm \in {temp_farm}, seed_objects \in {SeedObjects(ids)} :
                     generate_recommendations(farm, seed_objects, season, 0, "None", draw)
               /\ response' = Resp("get_quick_recommendation", 0, crop_type, 200,
                                   [i \in 1..min(3, Len(result')) |->
                                       [variety_name |-> seeds[result'[i].seed_id].variety_name,
                                        crop_type |-> seeds[result'[i].seed_id].crop_type]])
       /\ UNCHANGED dbVars

\* -------------------------------------------- specification SpecRecommend
\* get_recommendations called with a request body and a current user, and
\* POST /api/quick-recommendation.  The two handlers use the engine instances
\* of their modules; both are built by SeedRecommendationEngine() and neither
\* is trained or loaded here, so one instance stands for both.
InitRecommend ==
    /\ InitDb
    /\ response = NoResponse
    /\ users = RegisteredUsers
    /\ tokens = {}
    /\ bearer = NoToken
    /\ now = 0
    /\ \E c \in Installations : engine = SeedRecommendationEngine(c.ML_AVAILABLE, c.HAS_NUMPY)
    /\ call = [op |-> "__init__"]
    /\ result = <<>>
    /\ prev = NoRepeat
    /\ soil_cache = EmptyTable
    /\ in_flight = EmptyTable

NextRecommend ==
    \/ \E u \in UserIds, request \in RecommendationRequests, draw \in ServiceDraws,
          failure \in Failures :
          /\ get_recommendations(u, request, draw, failure)
          /\ UNCHANGED <<authVars, soil_cache, in_flight>>
    \/ \E crop_type \in CropTypes, draw \in ServiceDraws :
          /\ get_quick_recommendation(crop_type, "A", draw)
          /\ UNCHANGED <<authVars, soil_cache, in_flight>>

SpecRecommend == InitRecommend /\ [][NextRecommend]_vars

\* ------------------------------------------------------------ claim C13
\* C13: when no available seed matches the request (no available seed of the
\* preferred crops in get_recommendations, no available seed of the crop type
\* in get_quick_recommendation), the client receives a 404 response with the
\* 'no seeds' detail, and nothing is stored.
C13_NoSeedsNotFound ==
    [][ /\ \A u \in UserIds, request \in RecommendationRequests, draw \in ServiceDraws,
              failure \in Failures :
              (/\ OwnedFarm(request.farm_id, u)
               /\ seed_query(request.preferred_crops) = {}
               /\ get_recommendations(u, request, draw, failure)) =>
                  (response'.status = 404 /\ UNCHANGED dbVars)
        /\ \A crop_type \in CropTypes, draw \in ServiceDraws :
              (/\ \A id \in DOMAIN seeds :
                     ~(seeds[id].crop_type = crop_type /\ seeds[id].is_available)
               /\ get_quick_recommendation(crop_type, "A", draw)) =>
                  (response'.status = 404 /\ UNCHANGED dbVars)
      ]_vars

\* ------------------------------------------------------------ claim C16
\* a stored row holds what the request and an entry of the engine say
Persisted(row, request, rec) ==
    /\ row.farm_id = request.farm_id
    /\ row.seed_id = rec.seed_id
    /\ row.season = request.season
    /\ row.year = request.year
    /\ row.suitability_score = rec.compatibility_score
    /\ row.climate_match_score = rec.climate_match_score
    /\ row.soil_match_score = rec.soil_match_score
    /\ row.risk_score = rec.risk_score
    /\ row.confidence_level = rec.confidence_level
    /\ row.expected_yield = rec.yield_prediction

\* C16: get_recommendations persists atomically: on success exactly one
\* SeedRecommendation row is stored per entry returned by the engine (same
\* farm_id, seed_id, season, year and scores), all in one commit; if a step
\* fails after some rows were added, the transaction is rolled back and no row
\* of that request is stored.  The rows stored before are left as they were.
C16_AtomicPersistence ==
    [][ response'.op = "get_recommendations" =>
          LET request == response'.target
              new == DOMAIN recommendations' \ DOMAIN recommendations
          IN /\ \A id \in DOMAIN recommendations :
                   id \in DOMAIN recommendations' /\ recommendations'[id] = recommendations[id]
             /\ IF response'.status = 200
                THEN /\ Cardinality(new) = Len(result')
                     /\ Len(response'.rows) = Len(result')
                     /\ \A i \in 1..Len(result') :
                           Cardinality({id \in new :
                               Persisted(recommendations'[id], request, result'[i])}) = 1
                ELSE new = {}
             /\ response'.status = 200 \/ UNCHANGED dbVars
      ]_vars

\* a request that stored five recommendations after the one that was there,
\* and whose engine call ranked the seeds by different scores
C16_Witness ==
    /\ response.op = "get_recommendations"
    /\ response.status = 200
    /\ Len(response.rows) = 5
    /\ Cardinality(DOMAIN recommendations) = 6
    /\ \A i \in 1..5 : Persisted(recommendations[i + 1], response.target, result[i])
    /\ result[1].compatibility_score > result[5].compatibility_score

\* -------------------------------------------------- specification SpecApp
\* The application as a client sees it: the startup hook, the routes of
\* main.py and of the routers it includes, the login form, the analytics
\* dashboards and a POST to the recommendations router.

\* the users table as create_test_users.py leaves it
test_users ==
    << [username |-> "farmer1", email |-> "farmer1@example.com",
        password_hash |-> get_password_hash("password123"),
        user_type |-> "farmer", is_active |-> TRUE],
       [username |-> "admin", email |-> "admin@example.com",
        password_hash |-> get_password_hash("admin123"),
        user_type |-> "admin", is_active |-> TRUE],
       [username |-> "policy1", email |-> "policy1@example.com",
        password_hash |-> get_password_hash("policy123"),
        user_type |-> "policy_maker", is_active |-> TRUE] >>

\* the form data test_dashboard_api.py posts for each user type
test_dashboard_api_users ==
    { [username |-> "farmer1", password |-> "password123", type |-> "farmer"],
      [username |-> "admin", password |-> "admin123", type |-> "admin"],
      [username |-> "policy1", password |-> "policy123", type |-> "policy_maker"] }

\* the forms a client posts: those of the test, the same passwords with the
\* e-mail address of the user as username, and a wrong password
Forms ==
    {<<c.username, c.password>> : c \in test_dashboard_api_users}
      \cup {<<test_users[u].email,
               (CHOOSE c \in test_dashboard_api_users :
                   c.username = test_users[u].username).password>> : u \in DOMAIN test_users}
      \cup {<<"admin@example.com", "password123">>}

\* A path is the sequence of its segments after the leading slash: "/api/farms/"
\* is <<"api", "farms", "">>.  Param stands for a path parameter, which matches
\* any segment that is not empty.
Param == "{}"

Route(method, path, endpoint) == [method |-> method, path |-> path, endpoint |-> endpoint]

\* the routes of main.py: those FastAPI(docs_url=..., redoc_url=...) adds, and
\* the decorated functions
app_routes ==
    { Route("GET", <<"openapi.json">>, "openapi"),
      Route("GET", <<"api", "docs">>, "swagger_ui_html"),
      Route("GET", <<"api", "docs", "oauth2-redirect">>, "swagger_ui_redirect"),
      Route("GET", <<"api", "redoc">>, "redoc_html"),
      Route("GET", <<"">>, "root"),
      Route("GET", <<"api", "health">>, "health_check"),
      Route("POST", <<"api", "auth", "register">>, "register_user"),
      Route("POST", <<"api", "auth", "login">>, "login"),
      Route("GET", <<"api", "auth", "me">>, "read_users_me"),
      Route("POST", <<"api", "quick-recommendation">>, "get_quick_recommendation"),
      Route("GET", <<"api", "climate-analysis">>, "get_climate_analysis"),
      Route("GET", <<"api", "soil-analysis">>, "get_soil_analysis") }

\* the decorated functions of the five routers, without the prefix
router_routes ==
    [farms |->
        { Route("POST", <<"">>, "create_farm"),
          Route("GET", <<"">>, "get_my_farms"),
          Route("GET", <<Param>>, "get_farm"),
          Route("PUT", <<Param>>, "update_farm"),
          Route("DELETE", <<Param>>, "delete_farm"),
          Route("POST", <<Param, "soil-profiles">>, "create_soil_profile"),
          Route("GET", <<Param, "soil-profiles">>, "get_soil_profiles"),
          Route("POST", <<Param, "climate-records">>, "create_climate_record"),
          Route("GET", <<Param, "climate-records">>, "get_climate_records"),
          Route("POST", <<Param, "crop-cycles">>, "create_crop_cycle"),
          Route("GET", <<Param, "crop-cycles">>, "get_crop_cycles"),
          Route("GET", <<Param, "dashboard">>, "get_farm_dashboard") },
     seeds |->
        { Route("GET", <<"">>, "get_seeds"),
          Route("GET", <<"search">>, "search_seeds"),
          Route("GET", <<Param>>, "get_seed"),
          Route("GET", <<"crop-types", "available">>, "get_available_crop_types"),
          Route("GET", <<Param, "characteristics">>, "get_seed_characteristics"),
          Route("GET", <<Param, "suitability">>, "get_seed_suitability"),
          Route("GET", <<Param, "market-data">>, "get_seed_market_data"),
          Route("GET", <<"compare", Param, Param>>, "compare_seeds") },
     recommendations |->
        { Route("GET", <<"my-recommendations">>, "get_my_recommendations"),
          Route("GET", <<"farm", Param>>, "get_farm_recommendations"),
          Route("GET", <<"adaptation-guidance", Param>>, "get_adaptation_guidance"),
          Route("POST", <<Param, "feedback">>, "provide_recommendation_feedback"),
          Route("GET", <<"statistics">>, "get_recommendation_statistics") },
     analytics |->
        { Route("GET", <<"dashboard">>, "get_dashboard_stats"),
          Route("GET", <<"policy-dashboard">>, "get_policy_dashboard"),
          Route("GET", <<"yield-trends">>, "get_yield_trends"),
          Route("GET", <<"seed-performance">>, "get_seed_performance") },
     climate |->
        { Route("GET", <<"weather-for-farms">>, "get_weather_for_farms"),
          Route("GET", <<"alerts">>, "get_climate_alerts"),
          Route("GET", <<"farm", Param, "weather">>, "get_farm_weather") }]

\* app.include_router(router, prefix="/api/<name>")
include_router(name) ==
    {Route(r.method, <<"api", name>> \o r.path, r.endpoint) : r \in router_routes[name]}

routes == app_routes \cup UNION {include_router(name) : name \in DOMAIN router_routes}

\* the path regex of a route
matches(pattern, path) ==
    /\ Len(pattern) = Len(path)
    /\ \A i \in 1..Len(path) :
          IF pattern[i] = Param THEN path[i] # "" ELSE pattern[i] = path[i]

\* the path with its trailing slash removed, or added
redirect_slashes(path) ==
    IF path[Len(path)] = "" THEN SubSeq(path, 1, Len(path) - 1) ELSE path \o <<"">>

\* the router's answer to a request: the endpoint of the route that matches
\* path and method, "Method Not Allowed" when routes match the path only,
\* "Temporary Redirect" when a route matches the path with its trailing slash
\* changed, "Not Found" otherwise
dispatch(method, path) ==
    IF \E r \in routes : r.method = method /\ matches(r.path, path)
    THEN (CHOOSE r \in routes : r.method = method /\ matches(r.path, path)).endpoint
    ELSE IF \E r \in routes : matches(r.path, path)
         THEN "Method Not Allowed"
         ELSE IF path # <<"">> /\ \E r \in routes : matches(r.path, redirect_slashes(path))
              THEN "Temporary Redirect"
              ELSE "Not Found"

\* the response to a request no endpoint serves
default_response(method, path) ==
    Resp(dispatch(method, path), 0, <<method, path>>,
         CASE dispatch(method, path) = "Method Not Allowed" -> 405
           [] dispatch(method, path) = "Temporary Redirect" -> 307
           [] OTHER -> 404, {})

FormPaths ==
    {<<"api", "auth", "token">>, <<"api", "auth", "login">>, <<"api", "auth", "login", "">>,
     <<"api", "auth", "me">>}

\* POST path with the form data username and password
post_form(path, username, password) ==
    IF dispatch("POST", path) = "login"
    THEN login(username, password)
    ELSE /\ response' = default_response("POST", path)
         /\ bearer' = NoToken
         /\ UNCHANGED <<dbVars, users, tokens, now, engineVars, soil_cache, in_flight>>

\* ---- api/analytics.py
\* the farms of a user
user_farms(u) == {f \in DOMAIN farms : farms[f].owner_id = u}

\* the weather service's answer for a farm: data, None, or an exception
Weather == {"data", "None", "raise"}

\* whether the climate records stored without a date are of the last 7 days
Ages == {"recent", "old"}

Day == 24 * Hour

\* ClimateRecord.record_date >= datetime.now() - timedelta(days=7), for a row
\* that carries its date; age decides for a row that does not
in_last_7_days(row, age) ==
    IF "record_date" \in DOMAIN row
    THEN row.record_date >= now - 7 * Day
    ELSE age = "recent"

\* recent_data: the first record of the farm in the last 7 days, if any
recent_data(f, age) ==
    {r \in DOMAIN climate_records :
        climate_records[r].farm_id = f /\ in_last_7_days(climate_records[r], age)}

\* the records the loop of ensure_climate_data_for_farms adds to the session:
\* one for every farm without a record of the last 7 days, from the weather
\* data or, when the service raises, synthetic; none when the service returns
\* None
added_climate_records(farm_ids, age, weather) ==
    LET added == IF weather = "None" THEN {}
                 ELSE {f \in farm_ids : recent_data(f, age) = {}}
    IN [i \in 1..Cardinality(added) |->
           [farm_id |-> all(added)[i],
            record_date |-> now,
            data_source |-> IF weather = "data" THEN "openweather_api" ELSE "synthetic"]]

\* ensure_climate_data_for_farms(farms, db): the loop, then db.commit()
ensure_climate_data_for_farms(farm_ids, age, weather) ==
    commit(climate_records, added_climate_records(farm_ids, age, weather))

DashboardStats(view, total_farmers, total_farms, total_recommendations) ==
    [view |-> view, total_farmers |-> total_farmers, total_farms |-> total_farms,
     total_recommendations |-> total_recommendations]

\* get_farmer_dashboard_stats
get_farmer_dashboard_stats(u, age, weather) ==
    /\ climate_records' = IF user_farms(u) # {}
                          THEN ensure_climate_data_for_farms(user_farms(u), age, weather)
                          ELSE climate_records
    /\ response' = Resp("get_dashboard_stats", u, users[u].user_type, 200,
                        DashboardStats("farmer", 1, Cardinality(user_farms(u)),
                            Cardinality({r \in DOMAIN recommendations :
                                            recommendations[r].farm_id \in user_farms(u)})))

\* get_admin_dashboard_stats and get_policy_dashboard_stats: system-wide counts
get_system_dashboard_stats(u, view) ==
    /\ response' = Resp("get_dashboard_stats", u, users[u].user_type, 200,
                        DashboardStats(view,
                            Cardinality({x \in DOMAIN users : users[x].user_type = "farmer"}),
                            Cardinality(DOMAIN farms), Cardinality(DOMAIN recommendations)))
    /\ UNCHANGED climate_records

\* the rows of climate_records a behaviour may reach
MaxClimateRecords == 4

\* GET /api/analytics/dashboard: the view of the caller's user_type, the
\* farmer view for any other type
get_dashboard_stats(u, age, weather) ==
    /\ NextId(climate_records) <= MaxClimateRecords
    /\ IF users[u].user_type = "farmer"
       THEN get_farmer_dashboard_stats(u, age, weather)
       ELSE IF users[u].user_type = "admin"
       THEN get_system_dashboard_stats(u, "admin")
       ELSE IF users[u].user_type = "policy_maker"
       THEN get_system_dashboard_stats(u, "policy_maker")
       ELSE get_farmer_dashboard_stats(u, age, weather)
    /\ UNCHANGED <<farms, soil_profiles, crop_cycles, recommendations, seeds>>

\* GET /api/analytics/dashboard with a bearer token
get_dashboard_stats_with_token(token, age, weather) ==
    /\ bearer' = token
    /\ LET current_user == get_current_active_user(token) IN
       IF current_user = 0
       THEN /\ response' = Resp("get_dashboard_stats", 0, 0, 401, {})
            /\ UNCHANGED dbVars
       ELSE get_dashboard_stats(current_user, age, weather)
    /\ UNCHANGED <<users, tokens, now, engineVars, soil_cache, in_flight>>

\* every role
any_role == {"farmer", "admin", "policy_maker"}

\* the roles get_policy_dashboard admits
policy_roles == {"admin", "policy_maker"}

\* what the try block of get_policy_dashboard does: it returns the metrics or
\* a query raises; `except HTTPException: raise` passes an HTTPException on,
\* `except Exception` turns anything else into a 500
Outcomes == {"return", "raise"}

\* GET /api/analytics/policy-dashboard.  The role check stands before the try.
get_policy_dashboard(u, timeframe, outcome) ==
    /\ IF users[u].user_type \notin policy_roles
       THEN response' = Resp("get_policy_dashboard", u, timeframe, 403, <<>>)
       ELSE IF outcome = "raise"
       THEN response' = Resp("get_policy_dashboard", u, timeframe, 500, <<>>)
       ELSE response' = Resp("get_policy_dashboard", u, timeframe, 200,
                 <<[total_farmers |->
                       max(Cardinality({x \in DOMAIN users : users[x].user_type = "farmer"}), 45670),
                    food_security_index |-> 72]>>)
    /\ UNCHANGED <<dbVars, authVars, engineVars, soil_cache, in_flight>>

\* ---- the recommendations router
\* POST /api/recommendations/ with a bearer token and a RecommendationRequest
post_recommendations(token, request) ==
    /\ bearer' = token
    /\ IF dispatch("POST", <<"api", "recommendations", "">>) = "get_recommendations"
       THEN \E current_user \in {get_current_active_user(token)} :
               IF current_user = 0
               THEN /\ response' = Resp("get_recommendations", 0, request, 401, <<>>)
                    /\ UNCHANGED <<dbVars, engineVars>>
               ELSE \E draw \in ServiceDraws, failure \in Failures :
                       get_recommendations(current_user, request, draw, failure)
       ELSE /\ response' = default_response("POST", <<"api", "recommendations", "">>)
            /\ UNCHANGED <<dbVars, engineVars>>
    /\ UNCHANGED <<users, tokens, now, soil_cache, in_flight>>

\* ---- models/__init__.py and the startup hook
\* the seeds table as populate_uganda_data.py leaves it
ugandan_seed_varieties ==
    << [variety_name |-> "Longe 5", crop_type |-> "maize", is_available |-> TRUE],
       [variety_name |-> "Longe 10H", crop_type |-> "maize", is_available |-> TRUE],
       [variety_name |-> "PH4", crop_type |-> "maize", is_available |-> TRUE],
       [variety_name |-> "NABE 15", crop_type |-> "beans", is_available |-> TRUE],
       [variety_name |-> "NABE 14", crop_type |-> "beans", is_available |-> TRUE],
       [variety_name |-> "K20", crop_type |-> "beans", is_available |-> TRUE],
       [variety_name |-> "NAROCASS 1", crop_type |-> "cassava", is_available |-> TRUE],
       [variety_name |-> "TME 14", crop_type |-> "cassava", is_available |-> TRUE],
       [variety_name |-> "NASPOT 10 O", crop_type |-> "sweet_potato", is_available |-> TRUE],
       [variety_name |-> "NASPOT 11", crop_type |-> "sweet_potato", is_available |-> TRUE],
       [variety_name |-> "Serenut 5R", crop_type |-> "groundnuts", is_available |-> TRUE],
       [variety_name |-> "Red Beauty", crop_type |-> "groundnuts", is_available |-> TRUE] >>

\* where init_sample_data can fail: nowhere, at the Seed(**seed_data) or db.add
\* of the third variety, or at db.commit
SampleFailures == {"none", "the third Seed", "db.commit"}

\* init_sample_data without its first test
init_sample_data_again(table, failure) ==
    IF failure = "none"
    THEN commit(table, init_sample_seeds)
    ELSE rollback(table, init_sample_seeds)

\* init_sample_data with the seeds table before it: the table after it
init_sample_data(table, failure) ==
    IF DOMAIN table # {}
    THEN table
    ELSE IF failure = "none"
         THEN commit(table, init_sample_seeds)
         ELSE rollback(table, init_sample_seeds)

\* the files load_models finds under models/
ModelFiles == {"absent", "unreadable"}

\* startup_event: create_tables(), init_sample_data(), load_models()
startup_event(failure, files) ==
    /\ seeds' = init_sample_data(seeds, failure)
    /\ load_models(files)
    /\ UNCHANGED <<farms, soil_profiles, climate_records, crop_cycles, recommendations,
                   response, authVars, soil_cache, in_flight>>

InitApp ==
    /\ \/ InitDb
       \/ /\ farms = EmptyTable
          /\ soil_profiles = EmptyTable
          /\ climate_records = EmptyTable
          /\ crop_cycles = EmptyTable
          /\ recommendations = EmptyTable
          /\ seeds = ugandan_seed_varieties
    /\ response = NoResponse
    /\ users = test_users
    /\ tokens = {}
    /\ bearer = NoToken
    /\ now = 0
    /\ \E c \in Installations : engine = SeedRecommendationEngine(c.ML_AVAILABLE, c.HAS_NUMPY)
    /\ call = [op |-> "__init__"]
    /\ result = <<>>
    /\ prev = NoRepeat
    /\ soil_cache = EmptyTable
    /\ in_flight = EmptyTable

NextApp ==
    \/ \E failure \in SampleFailures, files \in ModelFiles : startup_event(failure, files)
    \/ \E path \in FormPaths, form \in Forms :
          Cardinality(tokens) < MaxTokens /\ post_form(path, form[1], form[2])
    \/ \E token \in tokens \cup {NoToken}, age \in Ages, weather \in Weather :
          get_dashboard_stats_with_token(token, age, weather)
    \/ \E u \in DOMAIN users, timeframe \in {"12months"}, outcome \in Outcomes :
          get_policy_dashboard(u, timeframe, outcome)
    \/ \E token \in tokens, request \in RecommendationRequests :
          post_recommendations(token, request)

SpecApp == InitApp /\ [][NextApp]_vars

\* ------------------------------------------------------------ claim C11
\* C11: for each of the three user types (farmer, admin, policy_maker), posting
\* the test's credentials to /api/auth/token returns 200 with an access_token,
\* and GET /api/analytics/dashboard with an issued token returns 200 with the
\* dashboard statistics of the view of that user's role.
C11_TestDashboardApi ==
    [][ /\ \A c \in test_dashboard_api_users :
              post_form(<<"api", "auth", "token">>, c.username, c.password) =>
                 /\ response'.status = 200
                 /\ \E t \in response'.rows : t.access_token \in tokens'
        /\ \A token \in tokens, age \in Ages, weather \in Weather :
              get_dashboard_stats_with_token(token, age, weather) =>
                 /\ response'.status = 200
                 /\ response'.rows.view = users[get_current_user(token)].user_type
      ]_vars

\* ------------------------------------------------------------ claim C12
\* C12: get_policy_dashboard is restricted by role: a caller whose user_type is
\* neither 'admin' nor 'policy_maker' always receives 403 and no policy
\* metrics, whatever the body of the handler would have done; the handler's
\* own exception handling does not turn the 403 into another status.
C12_PolicyDashboardRestricted ==
    (/\ response.op = "get_policy_dashboard"
     /\ users[response.user].user_type \notin {"admin", "policy_maker"}) =>
        (response.status = 403 /\ response.rows = <<>>)

\* a farmer asked for the policy dashboard and was refused
C12_Witness ==
    /\ response.op = "get_policy_dashboard"
    /\ users[response.user].user_type = "farmer"
    /\ response.status = 403
    /\ response.rows = <<>>

\* ------------------------------------------------------------ claim C15
\* C15: get_recommendations is registered on the recommendations router as
\* POST '/', so a POST to /api/recommendations/ by an authenticated farm owner
\* is dispatched to it.
C15_PostIsDispatched ==
    [][ \A token \in tokens, request \in RecommendationRequests :
           (/\ OwnedFarm(request.farm_id, get_current_active_user(token))
            /\ post_recommendations(token, request)) =>
               response'.op = "get_recommendations"
      ]_vars

\* ------------------------------------------------------------ claim C19
\* the three cases of init_sample_data in a startup
SampleDataCases(failure) ==
    /\ (DOMAIN seeds = {} /\ failure = "none") => seeds' = init_sample_seeds
    /\ DOMAIN seeds # {} => seeds' = seeds
    /\ (DOMAIN seeds = {} /\ failure # "none") => DOMAIN seeds' = {}

\* C19 as stated: the three cases, and hence every startup leaves exactly the
\* five sample seeds.
C19_ExactlyFive ==
    [][ \A failure \in SampleFailures, files \in ModelFiles :
           startup_event(failure, files) =>
              (SampleDataCases(failure) /\ seeds' = init_sample_seeds)
      ]_vars

\* C19: init_sample_data is idempotent: run on an empty seed table it inserts
\* exactly the five sample varieties in one commit; run when at least one seed
\* exists it changes nothing; if an insert or the commit fails it rolls back so
\* that none of the five is stored.  Hence a startup leaves a table that held
\* seeds as it was, and leaves an empty table either with exactly the five
\* sample seeds or, when it failed, empty.
C19_InitSampleData ==
    [][ \A failure \in SampleFailures, files \in ModelFiles :
           startup_event(failure, files) =>
              /\ SampleDataCases(failure)
              /\ seeds' = seeds \/ (DOMAIN seeds = {} /\ seeds' = init_sample_seeds)
      ]_vars

\* a startup found the tables empty and stored the five sample seeds
C19_Witness ==
    /\ call.op = "load_models"
    /\ DOMAIN farms = {}
    /\ DOMAIN seeds = 1..5
    /\ \A i \in 1..5 : seeds[i] = init_sample_seeds[i]

\* ------------------------------------------- specification SpecConcurrent
\* Dashboard requests in flight at the same time, served by the one server
\* process that main.py starts (uvicorn.run without workers).  get_dashboard_stats,
\* get_farmer_dashboard_stats and ensure_climate_data_for_farms are coroutines
\* that await nothing but each other: the queries, the weather request and the
\* commit are blocking calls.  The event loop therefore runs the body of one
\* request from its first query to its return before it runs the body of
\* another; requests overlap only between their arrival and that body.

\* the requests the server holds at a time
MaxRequests == 2

\* the days a behaviour lasts
MaxDays == 12

\* a GET /api/analytics/dashboard of user u arrives: its dependencies are
\* resolved and the endpoint waits for the event loop, under the first
\* number that no request in flight has
receive(u) ==
    /\ Cardinality(DOMAIN in_flight) < MaxRequests
    /\ in_flight' = Insert(in_flight,
                           CHOOSE r \in 1..MaxRequests :
                               r \notin DOMAIN in_flight /\ 1..(r - 1) \subseteq DOMAIN in_flight,
                           [user |-> u])
    /\ UNCHANGED <<dbVars, response, authVars, engineVars, soil_cache>>

\* an endpoint whose weather request is awaited: the event loop suspends it
\* between the loop of ensure_climate_data_for_farms and its commit
handle_suspended(r, age, weather) ==
    /\ NextId(climate_records) <= MaxClimateRecords
    /\ IF "added" \notin DOMAIN in_flight[r]
       THEN /\ in_flight' = [in_flight EXCEPT ![r] =
                    [user |-> in_flight[r].user,
                     added |-> IF users[in_flight[r].user].user_type = "farmer"
                               THEN added_climate_records(user_farms(in_flight[r].user),
                                                          age, weather)
                               ELSE <<>>]]
            /\ UNCHANGED <<dbVars, response>>
       ELSE /\ climate_records' = commit(climate_records, in_flight[r].added)
            /\ response' = Resp("get_dashboard_stats", in_flight[r].user,
                                users[in_flight[r].user].user_type, 200, <<>>)
            /\ in_flight' = Delete(in_flight, r)
            /\ UNCHANGED <<farms, soil_profiles, crop_cycles, recommendations, seeds>>
    /\ UNCHANGED <<authVars, engineVars, soil_cache>>

\* the event loop runs the endpoint of request r: get_dashboard_stats from
\* its first query to its return
handle(r, age, weather) ==
    /\ get_dashboard_stats(in_flight[r].user, age, weather)
    /\ in_flight' = Delete(in_flight, r)
    /\ UNCHANGED <<authVars, engineVars, soil_cache>>

\* four days pass
Wait ==
    /\ now + 4 * Day <= MaxDays * Day
    /\ now' = now + 4 * Day
    /\ UNCHANGED <<dbVars, response, users, tokens, bearer, engineVars, soil_cache, in_flight>>

NextConcurrent ==
    \/ \E u \in DOMAIN users : receive(u)
    \/ \E r \in DOMAIN in_flight, age \in Ages, weather \in Weather : handle(r, age, weather)
    \/ Wait

SpecConcurrent == InitApp /\ [][NextConcurrent]_vars

\* ------------------------------------------------------------ claim C21
\* the records ensure_climate_data_for_farms created for a farm
Automatic(table, f) ==
    {r \in DOMAIN table : table[r].farm_id = f /\ "data_source" \in DOMAIN table[r]}

\* C21: ensure_climate_data_for_farms creates at most one automatic climate
\* record per farm per 7-day window: any two automatic records of a farm are
\* dated more than 7 days apart, and a step in which a farm already has a
\* record dated within the last 7 days adds no record for it, also when
\* dashboard requests of the same farmer are in flight at the same time.
C21_OneRecordPerWindow ==
    /\ [](\A f \in DOMAIN farms : \A r1, r2 \in Automatic(climate_records, f) :
             r1 # r2 => abs(climate_records[r1].record_date
                              - climate_records[r2].record_date) > 7 * Day)
    /\ [][\A f \in DOMAIN farms :
             (\E r \in DOMAIN climate_records :
                 /\ climate_records[r].farm_id = f
                 /\ "record_date" \in DOMAIN climate_records[r]
                 /\ climate_records[r].record_date >= now - 7 * Day)
             => Automatic(climate_records', f) = Automatic(climate_records, f)]_vars

\* a farmer's request was answered and left an automatic record of today for
\* the farm, while a second request of the same farmer, received before the
\* first was answered, is still in flight
C21_Witness ==
    /\ response.op = "get_dashboard_stats"
    /\ response.status = 200
    /\ users[response.user].user_type = "farmer"
    /\ DOMAIN in_flight = {2}
    /\ in_flight[2].user = response.user
    /\ \E f \in user_farms(response.user) :
          \E r \in Automatic(climate_records, f) : climate_records[r].record_date = now

====
